---------------------------- MODULE Spec2Model ----------------------------
(***************************************************************************)
(* A model of tcmalloc/deallocation_profiler.cc: the deallocation lifetime *)
(* profiler.  The registry (DeallocationProfilerList) broadcasts sampled   *)
(* malloc and free events to every linked DeallocationProfiler; a profiler *)
(* pairs them through its in-flight map allocs_ and aggregates lifetimes   *)
(* in its DeallocationStackTraceTable, which Stop hands to an emitted      *)
(* profile.  The arena behind the containers is reference counted.         *)
(*                                                                         *)
(* The code's doubles are IEEE-754 binary64 values, and every operation on *)
(* them rounds as the hardware does.                                       *)
(*                                                                         *)
(* The constructor, Stop and the destructors run step by step in every     *)
(* specification: a step ends where the code takes or releases arena_lock_ *)
(* or profilers_lock_, so other threads' calls come in between.            *)
(***************************************************************************)
EXTENDS Integers, Sequences, FiniteSets, Bags, TLC

(***************************************************************************)
(* Bounds of the model.                                                    *)
(***************************************************************************)
\* Number of ReportMalloc / ReportFree broadcasts in one behaviour.
MaxEvents == 4
\* The broadcasts of a behaviour of SpecLife.
MaxLifeEvents == 6
\* The broadcasts of a behaviour of SpecFine.
MaxFineEvents == 2
\* The broadcasts of a behaviour of SpecFair that bcast records; it has any
\* number of others (FairRepeat).
MaxFairEvents == 1

(***************************************************************************)
(* Program constants.                                                      *)
(***************************************************************************)
kMaxStackDepth == 64
kNumCases == 12
\* nullptr
NULL == 0

(***************************************************************************)
(* Exact rational arithmetic [n, d], for what the lifetimes given to a     *)
(* slot amount to before any rounding.                                     *)
(***************************************************************************)
Abs(x) == IF x < 0 THEN -x ELSE x

RECURSIVE GCD(_, _)
GCD(a, b) == IF b = 0 THEN a ELSE GCD(b, a % b)

Rat(n, d) ==
  LET s == IF d < 0 THEN -1 ELSE 1
      g == GCD(Abs(n), Abs(d))
  IN  [n |-> (s * n) \div g, d |-> (s * d) \div g]

FromInt(i) == [n |-> i, d |-> 1]
RAdd(a, b) ==
  LET g == GCD(a.d, b.d)
  IN  Rat(a.n * (b.d \div g) + b.n * (a.d \div g), (a.d \div g) * b.d)
RNeg(a) == [n |-> -a.n, d |-> a.d]
RSub(a, b) == RAdd(a, RNeg(b))
RMul(a, b) ==
  LET x == Rat(a.n, b.d)
      y == Rat(b.n, a.d)
  IN  [n |-> x.n * y.n, d |-> x.d * y.d]
\* a / b for b # 0
RDiv(a, b) == RMul(a, Rat(b.d, b.n))

Min(a, b) == IF a < b THEN a ELSE b

(***************************************************************************)
(* Whole numbers of any size, for the significands of doubles: a sequence  *)
(* of limbs below kLimb, least significant first, without a zero limb at   *)
(* the end (<< >> is 0).                                                   *)
(***************************************************************************)
kLimbBits == 15
kLimb == 2^kLimbBits

\* F applied to the value of x, which is worked out once however often F
\* refers to it.
Once(x, F(_)) == CHOOSE r \in {F(v) : v \in {x}} : TRUE

Highest(S) == CHOOSE i \in S : \A j \in S : j <= i
Lowest(S) == CHOOSE i \in S : \A j \in S : i <= j

Limb(a, i) == IF i >= 1 /\ i <= Len(a) THEN a[i] ELSE 0

\* a without the zero limbs at its end
Trim(a) ==
  Once(a, LAMBDA v :
    LET nz == {i \in 1..Len(v) : v[i] # 0}
    IN  IF nz = {} THEN << >> ELSE SubSeq(v, 1, Highest(nz)))

\* the whole number 0 <= n < 2^31 in limbs
Natural(n) ==
  Trim(<<n % kLimb, (n \div kLimb) % kLimb, n \div (kLimb * kLimb)>>)

\* the limbs a < 2^31 as a whole number
ToInt(a) ==
  Once(a, LAMBDA v : Limb(v, 1) + kLimb * Limb(v, 2) + kLimb * kLimb * Limb(v, 3))

\* the number of binary digits of a
BitLength(a) ==
  Once(a, LAMBDA v :
    IF v = << >> THEN 0
    ELSE (Len(v) - 1) * kLimbBits
           + (CHOOSE k \in 1..kLimbBits : v[Len(v)] < 2^k /\ 2^(k - 1) <= v[Len(v)]))

\* the binary digit of weight 2^k of a
Bit(a, k) == (Limb(a, k \div kLimbBits + 1) \div 2^(k % kLimbBits)) % 2

\* the binary digits of a of weight below 2^k are all 0
LowZero(a, k) ==
  /\ \A i \in 1..(k \div kLimbBits) : Limb(a, i) = 0
  /\ Limb(a, k \div kLimbBits + 1) % 2^(k % kLimbBits) = 0

\* the number of zero binary digits at the low end of a # 0
TrailingZeros(a) ==
  Once(a, LAMBDA v :
    LET i == Lowest({j \in 1..Len(v) : v[j] # 0})
    IN  (i - 1) * kLimbBits
          + (CHOOSE k \in 0..(kLimbBits - 1) : v[i] % 2^(k + 1) # 0 /\ v[i] % 2^k = 0))

\* a * 2^k
ShiftLeft(a, k) ==
  Once(<<a, k \div kLimbBits, k % kLimbBits>>, LAMBDA p :
    Trim([i \in 1..(Len(p[1]) + p[2] + 1) |->
            IF i <= p[2] THEN 0
            ELSE ((Limb(p[1], i - p[2]) * 2^p[3]) % kLimb)
                   + (Limb(p[1], i - p[2] - 1) \div 2^(kLimbBits - p[3]))]))

\* a \div 2^k
ShiftRight(a, k) ==
  Once(<<a, k \div kLimbBits, k % kLimbBits>>, LAMBDA p :
    IF Len(p[1]) <= p[2] THEN << >>
    ELSE Trim([i \in 1..(Len(p[1]) - p[2]) |->
                 (Limb(p[1], i + p[2]) \div 2^p[3])
                   + ((Limb(p[1], i + p[2] + 1) % 2^p[3]) * 2^(kLimbBits - p[3]))]))

\* -1, 0 or 1 as a < b, a = b or a > b
Compare(a, b) ==
  Once(<<a, b>>, LAMBDA p :
    IF Len(p[1]) # Len(p[2]) THEN (IF Len(p[1]) < Len(p[2]) THEN -1 ELSE 1)
    ELSE LET D == {i \in 1..Len(p[1]) : p[1][i] # p[2][i]}
         IN  IF D = {} THEN 0
             ELSE IF p[1][Highest(D)] < p[2][Highest(D)] THEN -1 ELSE 1)

\* a + b from limb i on, with the carry of the limbs below, whose sum is out
RECURSIVE AddFrom(_, _, _, _, _)
AddFrom(a, b, i, carry, out) ==
  IF i > Len(a) /\ i > Len(b) THEN Trim(Append(out, carry))
  ELSE Once(Limb(a, i) + Limb(b, i) + carry, LAMBDA t :
         Once(Append(out, t % kLimb), LAMBDA o :
           AddFrom(a, b, i + 1, t \div kLimb, o)))

Sum(a, b) == Once(<<a, b>>, LAMBDA p : AddFrom(p[1], p[2], 1, 0, << >>))

\* a - b for a >= b from limb i on, with the borrow of the limbs below
RECURSIVE SubFrom(_, _, _, _, _)
SubFrom(a, b, i, borrow, out) ==
  IF i > Len(a) THEN Trim(out)
  ELSE Once(Limb(a, i) - Limb(b, i) - borrow, LAMBDA t :
         Once(Append(out, IF t < 0 THEN t + kLimb ELSE t), LAMBDA o :
           SubFrom(a, b, i + 1, IF t < 0 THEN 1 ELSE 0, o)))

Difference(a, b) == Once(<<a, b>>, LAMBDA p : SubFrom(p[1], p[2], 1, 0, << >>))

\* a * c for one limb c, from limb i of a on
RECURSIVE TimesLimb(_, _, _, _, _)
TimesLimb(a, c, i, carry, out) ==
  IF i > Len(a) THEN Append(out, carry)
  ELSE Once(a[i] * c + carry, LAMBDA t :
         Once(Append(out, t % kLimb), LAMBDA o :
           TimesLimb(a, c, i + 1, t \div kLimb, o)))

\* a * b: acc holds a * (the limbs of b below limb i)
RECURSIVE TimesFrom(_, _, _, _)
TimesFrom(a, b, i, acc) ==
  IF i > Len(b) THEN acc
  ELSE Once(Sum(acc, [j \in 1..(i - 1) |-> 0] \o TimesLimb(a, b[i], 1, 0, << >>)),
            LAMBDA s : TimesFrom(a, b, i + 1, s))

Multiply(a, b) == Once(<<a, b>>, LAMBDA p : TimesFrom(p[1], p[2], 1, << >>))

\* a \div d and a % d for a whole number 1 <= d < 2^16, from limb i of a down
RECURSIVE DivideFrom(_, _, _, _, _)
DivideFrom(a, d, i, r, out) ==
  IF i = 0 THEN [q |-> Trim(out), r |-> r]
  ELSE Once(r * kLimb + a[i], LAMBDA t :
         Once(<<t \div d>> \o out, LAMBDA o :
           DivideFrom(a, d, i - 1, t % d, o)))

Divide(a, d) == Once(a, LAMBDA v : DivideFrom(v, d, Len(v), 0, << >>))

\* the largest r with r * r <= n, given its digits above 2^i as r: the
\* digit 2^i is set when the square stays within n
RootDigit(n, r, i) ==
  Once(Sum(r, ShiftLeft(<<1>>, i)), LAMBDA t :
    IF Compare(Multiply(t, t), n) <= 0 THEN t ELSE r)

\* the digits 2^i down to 2^last settled after those of r
RECURSIVE RootFrom(_, _, _, _)
RootFrom(n, r, i, last) ==
  IF i < last THEN r
  ELSE Once(RootDigit(n, r, i), LAMBDA s : RootFrom(n, s, i - 1, last))

\* the digits from 2^i down, kLimbBits digits at a time
RECURSIVE RootLimbs(_, _, _)
RootLimbs(n, r, i) ==
  IF i < 0 THEN r
  ELSE Once(RootFrom(n, r, i, IF i < kLimbBits THEN 0 ELSE i - kLimbBits + 1),
            LAMBDA s : RootLimbs(n, s, i - kLimbBits))

\* the largest r with r * r <= n
Root(n) == Once(n, LAMBDA v : RootLimbs(v, << >>, BitLength(v) \div 2))

(***************************************************************************)
(* IEEE-754 binary64.  A finite double is [neg, m, e]: the value           *)
(* (-1)^neg * m * 2^e with m odd, at most kSignificandBits digits long;    *)
(* Zero is 0.0.  Every operation rounds its exact result to nearest, ties  *)
(* to even.  Exponents stay far from the ends of the range of a double,    *)
(* and the code never stores a -0.0.                                       *)
(***************************************************************************)
kSignificandBits == 53
\* binary digits a quotient is worked out to: a multiple of kLimbBits that
\* leaves more than kSignificandBits + 1 digits for any divisor below 2^16
kQuotientBits == 75

Zero == [neg |-> FALSE, m |-> << >>, e |-> 0]

\* +-n * 2^e for a whole number n # 0 of at most kSignificandBits digits
Odd(neg, n, e) ==
  Once(<<n, TrailingZeros(n)>>, LAMBDA p :
    [neg |-> neg, m |-> ShiftRight(p[1], p[2]), e |-> e + p[2]])

\* The double nearest to +-(n * 2^e), or to a little more than that when
\* inexact (then n has more than kSignificandBits digits).
RoundToDouble(neg, n, e, inexact) ==
  Once(<<n, BitLength(n) - kSignificandBits>>, LAMBDA p :
    IF p[1] = << >> THEN Zero
    ELSE IF p[2] <= 0 THEN Odd(neg, p[1], e)
    ELSE Once(ShiftRight(p[1], p[2]), LAMBDA kept :
           LET half == Bit(p[1], p[2] - 1) = 1
               rest == inexact \/ ~LowZero(p[1], p[2] - 1)
               up == half /\ (rest \/ Bit(kept, 0) = 1)
           IN  Odd(neg, IF up THEN Sum(kept, <<1>>) ELSE kept, e + p[2])))

\* static_cast<double>(i) for a whole number -2^31 < i < 2^31
Double(i) ==
  IF i = 0 THEN Zero
  ELSE Odd(i < 0, Natural(IF i < 0 THEN -i ELSE i), 0)

\* the power of two above the value of x # Zero
Top(x) == BitLength(x.m) + x.e

Sign(x) == IF x = Zero THEN 0 ELSE IF x.neg THEN -1 ELSE 1

\* |a| against |b| for a, b # Zero
CompareMagnitude(a, b) ==
  IF Top(a) # Top(b) THEN (IF Top(a) < Top(b) THEN -1 ELSE 1)
  ELSE IF a.e >= b.e THEN Compare(ShiftLeft(a.m, a.e - b.e), b.m)
  ELSE Compare(a.m, ShiftLeft(b.m, b.e - a.e))

\* x < y
LessThan(x, y) ==
  Once(<<x, y>>, LAMBDA p :
    IF Sign(p[1]) # Sign(p[2]) THEN Sign(p[1]) < Sign(p[2])
    ELSE IF Sign(p[1]) = 0 THEN FALSE
    ELSE Sign(p[1]) * CompareMagnitude(p[1], p[2]) < 0)

\* x <= y
AtMost(x, y) == ~LessThan(y, x)

Negative(x) == Once(x, LAMBDA v : IF v = Zero THEN Zero ELSE [v EXCEPT !.neg = ~@])

\* a + b for a, b # Zero that are less than 2^56 times apart
AddAligned(a, b) ==
  LET e == IF a.e < b.e THEN a.e ELSE b.e
  IN  Once(<<ShiftLeft(a.m, a.e - e), ShiftLeft(b.m, b.e - e)>>, LAMBDA p :
        IF a.neg = b.neg THEN RoundToDouble(a.neg, Sum(p[1], p[2]), e, FALSE)
        ELSE IF Compare(p[1], p[2]) >= 0
        THEN RoundToDouble(a.neg, Difference(p[1], p[2]), e, FALSE)
        ELSE RoundToDouble(b.neg, Difference(p[2], p[1]), e, FALSE))

\* x + y.  An operand 2^56 times smaller than the other leaves it as it is.
Plus(x, y) ==
  Once(<<x, y>>, LAMBDA p :
    IF p[1] = Zero THEN p[2]
    ELSE IF p[2] = Zero THEN p[1]
    ELSE IF Top(p[1]) - Top(p[2]) >= kSignificandBits + 3 THEN p[1]
    ELSE IF Top(p[2]) - Top(p[1]) >= kSignificandBits + 3 THEN p[2]
    ELSE AddAligned(p[1], p[2]))

\* x - y
Minus(x, y) == Plus(x, Negative(y))

\* x * y
Product(x, y) ==
  Once(<<x, y>>, LAMBDA p :
    IF p[1] = Zero \/ p[2] = Zero THEN Zero
    ELSE RoundToDouble(p[1].neg # p[2].neg, Multiply(p[1].m, p[2].m),
                       p[1].e + p[2].e, FALSE))

\* x / static_cast<double>(d) for a whole number d >= 1 whose odd part is
\* below 2^16
Quotient(x, d) ==
  Once(<<x, CHOOSE k \in 0..29 : d % 2^(k + 1) # 0 /\ d % 2^k = 0>>, LAMBDA p :
    IF p[1] = Zero THEN Zero
    ELSE IF d = 2^p[2] THEN [p[1] EXCEPT !.e = @ - p[2]]
    ELSE Once(Divide(ShiftLeft(p[1].m, kQuotientBits), d \div 2^p[2]), LAMBDA qr :
           RoundToDouble(p[1].neg, qr.q, p[1].e - p[2] - kQuotientBits, qr.r # 0)))

\* sqrt(x) for x >= 0, correctly rounded.  The radicand is scaled by an even
\* power of two to a whole number of at least 108 digits, whose whole root
\* has at least kSignificandBits + 1.
sqrt(x) ==
  Once(x, LAMBDA a :
    IF a = Zero THEN Zero
    ELSE LET s0 == IF BitLength(a.m) >= 108 THEN 0 ELSE 108 - BitLength(a.m)
             s == s0 + ((a.e - s0) % 2)
         IN  Once(ShiftLeft(a.m, s), LAMBDA n :
               Once(Root(n), LAMBDA r :
                 RoundToDouble(FALSE, r, (a.e - s) \div 2, Multiply(r, r) # n))))

\* static_cast<uintptr_t>(x) for 0 <= x < 2^31: the fraction is cut off
Truncate(x) ==
  Once(x, LAMBDA a :
    IF a = Zero THEN 0
    ELSE IF a.e >= 0 THEN ToInt(a.m) * 2^a.e
    ELSE ToInt(ShiftRight(a.m, -a.e)))

\* std::lround(x) for 0 <= x < 2^31: nearest, halfway cases away from zero
lround(x) ==
  Once(x, LAMBDA a :
    IF a = Zero THEN 0
    ELSE IF a.e >= 0 THEN ToInt(a.m) * 2^a.e
    ELSE ToInt(ShiftRight(a.m, -a.e)) + Bit(a.m, -a.e - 1))

\* std::min(x, y)
MinOf(x, y) == IF LessThan(y, x) THEN y ELSE x

\* std::max(x, y)
MaxOf(x, y) == IF LessThan(x, y) THEN y ELSE x

\* std::numeric_limits<double>::max(): (2^53 - 1) * 2^971
DBL_MAX == [neg |-> FALSE, m |-> <<32767, 32767, 32767, 255>>, e |-> 971]

\* the double nearest to the rational r
Nearest(r) == Quotient(Double(r.n), r.d)

(***************************************************************************)
(* DeallocationSampleRecord (lines 81-110).                                *)
(***************************************************************************)
\* A value-initialized record: what allocs_[handle] inserts for a new handle.
DeallocationSampleRecord ==
  [weight |-> Zero, requested_size |-> 0, requested_alignment |-> 0,
   allocated_size |-> 0, depth |-> 0, stack |-> << >>,
   creation_time |-> 0, cpu_id |-> 0, thread_id |-> 0]

\* std::equal(stack, stack + depth, other.stack): the first depth frames agree.
\* stack holds the frames that were written; where depth exceeds the array,
\* SpecDeep supplies what the read behind it finds before the record is used.
StackPrefixEqual(a, b, depth) ==
  \A i \in 1..depth :
    /\ i <= Len(a) /\ i <= Len(b)
    /\ a[i] = b[i]

\* DeallocationSampleRecord::operator==
RecordEq(a, b) ==
  IF \/ a.depth # b.depth
     \/ a.requested_size # b.requested_size
     \/ a.requested_alignment # b.requested_alignment
     \/ a.allocated_size # b.allocated_size
  THEN FALSE
  ELSE StackPrefixEqual(a.stack, b.stack, a.depth)

(***************************************************************************)
(* Matching-status taxonomy (lines 112-158).                               *)
(***************************************************************************)
BoolToInt(b) == IF b THEN 1 ELSE 0

CpuThreadMatchingStatus(cpu_matched, thread_matched) ==
  [cpu_matched |-> cpu_matched, thread_matched |-> thread_matched,
   value |-> 2 * BoolToInt(cpu_matched) + BoolToInt(thread_matched)]

ComputeValue(alloc, dealloc) ==
  IF alloc # 0 /\ dealloc # 0 THEN BoolToInt(alloc = dealloc) ELSE 2

RpcMatchingStatus(alloc, dealloc) == [value |-> ComputeValue(alloc, dealloc)]

ComputeIndex(status, rpc_status) == status.value * 3 + rpc_status.value

kAllCases ==
  << <<CpuThreadMatchingStatus(FALSE, FALSE), RpcMatchingStatus(0, 0)>>,
     <<CpuThreadMatchingStatus(FALSE, TRUE), RpcMatchingStatus(0, 0)>>,
     <<CpuThreadMatchingStatus(TRUE, FALSE), RpcMatchingStatus(0, 0)>>,
     <<CpuThreadMatchingStatus(TRUE, TRUE), RpcMatchingStatus(0, 0)>>,
     <<CpuThreadMatchingStatus(FALSE, FALSE), RpcMatchingStatus(1, 2)>>,
     <<CpuThreadMatchingStatus(FALSE, TRUE), RpcMatchingStatus(1, 2)>>,
     <<CpuThreadMatchingStatus(TRUE, FALSE), RpcMatchingStatus(1, 2)>>,
     <<CpuThreadMatchingStatus(TRUE, TRUE), RpcMatchingStatus(1, 2)>>,
     <<CpuThreadMatchingStatus(FALSE, FALSE), RpcMatchingStatus(1, 1)>>,
     <<CpuThreadMatchingStatus(FALSE, TRUE), RpcMatchingStatus(1, 1)>>,
     <<CpuThreadMatchingStatus(TRUE, FALSE), RpcMatchingStatus(1, 1)>>,
     <<CpuThreadMatchingStatus(TRUE, TRUE), RpcMatchingStatus(1, 1)>> >>

(***************************************************************************)
(* internal::LifetimeToBucketedLifetimeNanoseconds (lines 541-561).        *)
(***************************************************************************)
RECURSIVE BucketCutoffRoundsUp(_, _)
\* the loop returning cutoff_ns itself: the next larger power of ten.
BucketCutoffRoundsUp(lifetime_ns, cutoff_ns) ==
  IF cutoff_ns > 1000000 THEN -1
  ELSE IF LessThan(lifetime_ns, Double(cutoff_ns)) THEN cutoff_ns
  ELSE BucketCutoffRoundsUp(lifetime_ns, cutoff_ns * 10)

RECURSIVE BucketCutoff(_, _)
\* the for loop over cutoff_ns = 10, 100, ..., 1000000
BucketCutoff(lifetime_ns, cutoff_ns) ==
  IF cutoff_ns > 1000000 THEN -1
  ELSE IF LessThan(lifetime_ns, Double(cutoff_ns)) THEN cutoff_ns \div 10
  ELSE BucketCutoff(lifetime_ns, cutoff_ns * 10)

\* static_cast<uintptr_t>(lifetime_ns / 1000000.0) * 1000000L
RoundDownToMillisecond(lifetime_ns) ==
  Truncate(Quotient(lifetime_ns, 1000000)) * 1000000

LifetimeToBucketedLifetimeNanoseconds(lifetime_ns) ==
  Once(lifetime_ns, LAMBDA x :
    IF LessThan(x, Double(1000000))
    THEN IF AtMost(x, Double(1)) THEN 1
         ELSE LET c == BucketCutoff(x, 10)
              IN  IF c # -1 THEN c ELSE RoundDownToMillisecond(x)
    ELSE RoundDownToMillisecond(x))

(***************************************************************************)
(* DeallocationStackTraceTable: Key, Value, AddTrace (lines 253-285,       *)
(* 423-455).  table_ is the set of the hash map's entries [k, v].          *)
(***************************************************************************)
Cases == 0..(kNumCases - 1)

Key(alloc, dealloc) == [alloc |-> alloc, dealloc |-> dealloc]

\* Key::operator==
KeyEq(a, b) == RecordEq(a.alloc, b.alloc) /\ RecordEq(a.dealloc, b.dealloc)
\* Value() with the minimum starting at 0 like the maximum.
ValueMinZero ==
  [counts |-> [i \in Cases |-> 0],
   mean_life_times_ns |-> [i \in Cases |-> Zero],
   variance_life_times_ns |-> [i \in Cases |-> Zero],
   min_life_times_ns |-> [i \in Cases |-> Zero],
   max_life_times_ns |-> [i \in Cases |-> Zero]]

\* Value::Value().  counts holds whole numbers, which a double holds exactly.
Value ==
  [counts |-> [i \in Cases |-> 0],
   mean_life_times_ns |-> [i \in Cases |-> Zero],
   variance_life_times_ns |-> [i \in Cases |-> Zero],
   min_life_times_ns |-> [i \in Cases |-> DBL_MAX],
   max_life_times_ns |-> [i \in Cases |-> Zero]]

\* v.mean_life_times_ns[index] after line 444-445
NewMean(v, index, life_time_ns) ==
  Plus(v.mean_life_times_ns[index],
       Quotient(Minus(life_time_ns, v.mean_life_times_ns[index]),
                v.counts[index] + 1))

\* v.variance_life_times_ns[index] after lines 446-448, new_mean_ns being the
\* mean just stored
NewVariance(v, index, life_time_ns, new_mean_ns) ==
  Plus(v.variance_life_times_ns[index],
       Product(Minus(life_time_ns, new_mean_ns),
               Minus(new_mean_ns, v.mean_life_times_ns[index])))

\* The update of one slot without the std::max of lines 452-453.
UpdateSlotKeepsMax(v, index, life_time_ns) ==
  Once(<<v, life_time_ns>>, LAMBDA a :
    Once(NewMean(a[1], index, a[2]), LAMBDA new_mean_ns :
      [counts |-> [a[1].counts EXCEPT ![index] = @ + 1],
       mean_life_times_ns |->
         [a[1].mean_life_times_ns EXCEPT ![index] = new_mean_ns],
       variance_life_times_ns |->
         [a[1].variance_life_times_ns EXCEPT
            ![index] = NewVariance(a[1], index, a[2], new_mean_ns)],
       min_life_times_ns |->
         [a[1].min_life_times_ns EXCEPT ![index] = MinOf(@, a[2])],
       max_life_times_ns |-> a[1].max_life_times_ns]))

\* The Welford update of one slot of a Value (lines 442-454).
UpdateSlot(v, index, life_time_ns) ==
  Once(<<v, life_time_ns>>, LAMBDA a :
    Once(NewMean(a[1], index, a[2]), LAMBDA new_mean_ns :
      [counts |-> [a[1].counts EXCEPT ![index] = @ + 1],
       mean_life_times_ns |->
         [a[1].mean_life_times_ns EXCEPT ![index] = new_mean_ns],
       variance_life_times_ns |->
         [a[1].variance_life_times_ns EXCEPT
            ![index] = NewVariance(a[1], index, a[2], new_mean_ns)],
       min_life_times_ns |->
         [a[1].min_life_times_ns EXCEPT ![index] = MinOf(@, a[2])],
       max_life_times_ns |->
         [a[1].max_life_times_ns EXCEPT ![index] = MaxOf(@, a[2])]]))

\* AddTrace with the two comparisons handed to CpuThreadMatchingStatus in the
\* wrong order.
TraceIndexSwapped(alloc_trace, dealloc_trace) ==
  ComputeIndex(CpuThreadMatchingStatus(alloc_trace.thread_id = dealloc_trace.thread_id,
                                       alloc_trace.cpu_id = dealloc_trace.cpu_id),
               RpcMatchingStatus(0, 0))

\* The slot AddTrace updates.
TraceIndex(alloc_trace, dealloc_trace) ==
  ComputeIndex(CpuThreadMatchingStatus(alloc_trace.cpu_id = dealloc_trace.cpu_id,
                                       alloc_trace.thread_id = dealloc_trace.thread_id),
               RpcMatchingStatus(0, 0))

\* table_[Key(alloc_trace, dealloc_trace)]: the entry with an equal key, or a
\* new entry holding this key and a fresh Value.
Lookup(table_, key) ==
  LET found == {e \in table_ : KeyEq(e.k, key)}
  IN  IF found = {} THEN [k |-> key, v |-> Value] ELSE CHOOSE e \in found : TRUE

\* absl::ToDoubleNanoseconds(dealloc_trace.creation_time -
\* alloc_trace.creation_time): a whole number of nanoseconds
LifeTimeNs(alloc_trace, dealloc_trace) ==
  Double(dealloc_trace.creation_time - alloc_trace.creation_time)

AddTrace(table_, alloc_trace, dealloc_trace) ==
  LET index == TraceIndex(alloc_trace, dealloc_trace)
      key == Key(alloc_trace, dealloc_trace)
      e == Lookup(table_, key)
  IN  {x \in table_ : ~KeyEq(x.k, key)}
        \cup {[k |-> e.k,
               v |-> UpdateSlot(e.v, index, LifeTimeNs(alloc_trace, dealloc_trace))]}

\* What one AddTrace call observes: the entry it updates, the slot, and the
\* lifetime in nanoseconds (lines 426-440).
Observation(table_, alloc_trace, dealloc_trace) ==
  [k |-> Lookup(table_, Key(alloc_trace, dealloc_trace)).k,
   index |-> TraceIndex(alloc_trace, dealloc_trace),
   x |-> dealloc_trace.creation_time - alloc_trace.creation_time]

(***************************************************************************)
(* DeallocationStackTraceTable::Iterate (lines 457-521).  entries is the   *)
(* hash map's entries in the order the map iterates them; the result is    *)
(* the sequence of samples handed to func.                                 *)
(***************************************************************************)
\* std::copy(stack, stack + depth, sample.stack)
CopyStack(stack, depth) == SubSeq(stack, 1, depth)

\* count = bytes / allocated_size: rounds down instead of up.
CountOfRoundsDown(bytes, allocated_size) == bytes \div allocated_size

\* int64_t count = (bytes + allocated_size - 1) / allocated_size
CountOf(bytes, allocated_size) == (bytes + allocated_size - 1) \div allocated_size

(***************************************************************************)
(* Sampled allocations.  A StackTrace is what the sampler hands to        *)
(* ReportMalloc.                                                           *)
(***************************************************************************)
\* The sampled allocation of scenario S1.
TraceA ==
  [depth |-> 2, stack |-> <<101, 102>>, requested_size |-> 32,
   requested_alignment |-> 0, allocated_size |-> 32,
   allocation_time |-> 1000, weight |-> 1024]
\* The same call site and sizes, sampled later and with the least weight.
TraceB ==
  [depth |-> 2, stack |-> <<101, 102>>, requested_size |-> 32,
   requested_alignment |-> 0, allocated_size |-> 32,
   allocation_time |-> 5000, weight |-> 1]
\* Another call site, an aligned request rounded up to its size class.
TraceC ==
  [depth |-> 1, stack |-> <<103>>, requested_size |-> 24,
   requested_alignment |-> 8, allocated_size |-> 32,
   allocation_time |-> 1000, weight |-> 1]

Traces == {TraceA, TraceB, TraceC}

Frames(n) == [i \in 1..n |-> 1000 + i]

\* A trace that fills the array.
TraceFull ==
  [depth |-> kMaxStackDepth, stack |-> Frames(kMaxStackDepth), requested_size |-> 32,
   requested_alignment |-> 0, allocated_size |-> 32,
   allocation_time |-> 1000, weight |-> 1024]
\* A trace that reports one frame more than an array of kMaxStackDepth holds.
TraceDeep ==
  [depth |-> kMaxStackDepth + 1, stack |-> Frames(kMaxStackDepth),
   requested_size |-> 32, requested_alignment |-> 0, allocated_size |-> 32,
   allocation_time |-> 1000, weight |-> 1024]

\* The readings of the clock.
Times == {1000, 5000}

\* allocation.weight = static_cast<double>(stack_trace.weight) /
\* (stack_trace.requested_size + 1) (lines 348-349)
WeightOf(stack_trace) ==
  Quotient(Double(stack_trace.weight), stack_trace.requested_size + 1)

(***************************************************************************)
(* Iterate's byte estimate (line 474) and standard deviation (482-484).    *)
(***************************************************************************)
\* std::lround(v.counts[index] * k.alloc.weight * allocated_size): the two
\* products are taken left to right, each rounded to a double.
WeightedBytes(counts, weight, allocated_size) ==
  lround(Product(Product(Double(counts), weight), Double(allocated_size)))

\* WeightedBytes of the sampled allocations above, computed once.
SampledWeights ==
  {<<WeightOf(t), t.allocated_size>> : t \in Traces \cup {TraceFull, TraceDeep}}

WeightedBytesOfTraces ==
  [c \in 0..MaxEvents, w \in SampledWeights |-> WeightedBytes(c, w[1], w[2])]

\* uintptr_t bytes = std::lround(v.counts[index] * k.alloc.weight * allocated_size)
BytesOf(counts, weight, allocated_size) ==
  IF <<counts, <<weight, allocated_size>>>> \in DOMAIN WeightedBytesOfTraces
  THEN WeightedBytesOfTraces[counts, <<weight, allocated_size>>]
  ELSE WeightedBytes(counts, weight, allocated_size)

\* std::max(0.0, v.variance_life_times_ns[index] /
\*               static_cast<double>(v.counts[index]))
MeanSquare(v, index) ==
  MaxOf(Zero, Quotient(v.variance_life_times_ns[index], v.counts[index]))

\* The slots that hold two lifetimes between two readings of the clock, and
\* the roots of their mean squares, computed once.
SampledLifetimes == {free - alloc : free \in Times, alloc \in Times}

SampledSlots ==
  {UpdateSlot(UpdateSlot(Value, 0, Double(x)), 0, Double(y)) :
     x \in SampledLifetimes, y \in SampledLifetimes}

RootsOfSlots ==
  [x \in {MeanSquare(v, 0) : v \in SampledSlots} |-> sqrt(x)]

\* double stddev_life_time_ns = sqrt(std::max(0.0, variance / counts))
StddevOf(v, index) ==
  Once(MeanSquare(v, index), LAMBDA x :
    IF x \in DOMAIN RootsOfSlots THEN RootsOfSlots[x] ELSE sqrt(x))

\* The Profile::Sample built for slot index of entry e (lines 474-500), with
\* the count of the allocation side.
SampleOf(e, matching_case, pair_id) ==
  LET k == e.k
      v == e.v
      index == ComputeIndex(matching_case[1], matching_case[2])
      allocated_size == k.alloc.allocated_size
      bytes == BytesOf(v.counts[index], k.alloc.weight, allocated_size)
      count == CountOf(bytes, allocated_size)
      sum == count * allocated_size
  IN  [sum |-> sum,
       requested_size |-> k.alloc.requested_size,
       requested_alignment |-> k.alloc.requested_alignment,
       allocated_size |-> allocated_size,
       profile_id |-> pair_id,
       lifetime_ns |->
         LifetimeToBucketedLifetimeNanoseconds(v.mean_life_times_ns[index]),
       stddev_lifetime_ns |->
         LifetimeToBucketedLifetimeNanoseconds(StddevOf(v, index)),
       min_lifetime_ns |->
         LifetimeToBucketedLifetimeNanoseconds(v.min_life_times_ns[index]),
       max_lifetime_ns |->
         LifetimeToBucketedLifetimeNanoseconds(v.max_life_times_ns[index]),
       allocator_deallocator_cpu_matched |-> matching_case[1].cpu_matched,
       allocator_deallocator_thread_matched |-> matching_case[1].thread_matched,
       count |-> count]

\* EmitPair without the negation of the second sample's count.
EmitPairSameSign(e, matching_case, pair_id) ==
  LET sample == SampleOf(e, matching_case, pair_id)
  IN  << sample @@ [depth |-> e.k.alloc.depth,
                    stack |-> CopyStack(e.k.alloc.stack, e.k.alloc.depth)],
         sample @@ [depth |-> e.k.dealloc.depth,
                    stack |-> CopyStack(e.k.dealloc.stack, e.k.dealloc.depth)] >>

\* The two samples emitted for slot index of entry e under pair_id: first for
\* the allocation, second for the deallocation (lines 502-515).
EmitPair(e, matching_case, pair_id) ==
  LET sample == SampleOf(e, matching_case, pair_id)
  IN  << sample @@ [depth |-> e.k.alloc.depth,
                    stack |-> CopyStack(e.k.alloc.stack, e.k.alloc.depth)],
         [sample EXCEPT !.count = (-1) * @]
           @@ [depth |-> e.k.dealloc.depth,
               stack |-> CopyStack(e.k.dealloc.stack, e.k.dealloc.depth)] >>

RECURSIVE IterateFrom(_, _, _, _)
\* The loops of Iterate from entry i, case c, with pair_id the next id.
IterateFrom(entries, i, c, pair_id) ==
  IF i > Len(entries) THEN << >>
  ELSE IF c > Len(kAllCases) THEN IterateFrom(entries, i + 1, 1, pair_id)
  ELSE LET index == ComputeIndex(kAllCases[c][1], kAllCases[c][2])
       IN  IF entries[i].v.counts[index] = 0
           THEN IterateFrom(entries, i, c + 1, pair_id)
           ELSE EmitPair(entries[i], kAllCases[c], pair_id)
                  \o IterateFrom(entries, i, c + 1, pair_id + 1)

Iterate(entries) == IterateFrom(entries, 1, 1, 1)

\* Every order in which the hash map may iterate its entries.
RECURSIVE Orders(_)
Orders(table_) ==
  IF table_ = {} THEN {<< >>}
  ELSE UNION {{<<e>> \o o : o \in Orders(table_ \ {e})} : e \in table_}

\* What iterating table t can yield: the samples of each iteration order.
Yields(t) == {Iterate(o) : o \in Orders(t.table_)}

(***************************************************************************)
(* The program state.  Operators below take the record S of all fields and *)
(* return the record after the code has run; Cur is S for the current      *)
(* state and Becomes(S) makes S the next state.                            *)
(***************************************************************************)
\* The DeallocationSample handles ever created, and the profiler and the table
\* each of them creates: object p is the p-th one created.
Profilers == {1, 2}
\* the arena returned by LowLevelAlloc::NewArena
ARENA == 1
\* no thread holds the lock
NoThread == 0

VARIABLES
  first_,          \* DeallocationProfilerList::first_
  next_,           \* DeallocationProfiler::next_, per profiler
  allocs_,         \* DeallocationProfiler::allocs_, per profiler: handle -> record
  allocs_cap,      \* the capacity of allocs_ of a profiler: 0 while it holds no block
  reports_,        \* DeallocationProfiler::reports_, per profiler: NULL or its table
  tables,          \* the DeallocationStackTraceTable objects
  profiler_,       \* DeallocationSample::profiler_, per handle: NULL or its profiler
  sample,          \* the DeallocationSample handles: "unborn", "live", "destroyed"
  profile,         \* per handle: the Profile its first Stop returned, while the caller holds it
  stop_result,     \* what the last DeallocationSample::Stop of a handle returned
  arena_,          \* MyAllocator::arena_
  refcount_,       \* MyAllocator::refcount_
  crashed,         \* a CHECK_CONDITION has failed
  registered,      \* history: profilers for which Add has run and Remove has not
  bcast,           \* history: the broadcasts, in the order they took the lock, each
                   \* with the number of profilers that have read the environment
  seen,            \* history: per profiler, the broadcasts delivered to it
  pairlog,         \* history: per profiler, the handles its AddTrace calls paired
  lifelog,         \* history: per table, the bag of (key, slot, lifetime) given to AddTrace
  emitted,         \* history: per handle, the table of the profile it holds as Stop returned it
  stopwatch,       \* history: per handle, absl::Now() at its start and at its Stop
  profilers_lock_, \* DeallocationProfilerList::profilers_lock_: its holder
  cur,             \* per thread: the local cur of a list walk
  ev,              \* per thread: the arguments of the call it runs
  arena_lock_,     \* MyAllocator::arena_lock_: its holder
  todo             \* per thread: the steps left of the call it runs

vars ==
  <<first_, next_, allocs_, allocs_cap, reports_, tables, profiler_, sample,
    profile, stop_result, arena_, refcount_, crashed, registered, bcast, seen,
    pairlog, lifelog, emitted, stopwatch, profilers_lock_, cur, ev,
    arena_lock_, todo>>

Cur ==
  [first_ |-> first_, next_ |-> next_, allocs_ |-> allocs_,
   allocs_cap |-> allocs_cap, reports_ |-> reports_, tables |-> tables,
   profiler_ |-> profiler_, sample |-> sample, profile |-> profile,
   stop_result |-> stop_result, arena_ |-> arena_, refcount_ |-> refcount_,
   crashed |-> crashed, registered |-> registered, bcast |-> bcast,
   seen |-> seen, pairlog |-> pairlog, lifelog |-> lifelog, emitted |-> emitted]

Becomes(S) ==
  /\ first_' = S.first_
  /\ next_' = S.next_
  /\ allocs_' = S.allocs_
  /\ allocs_cap' = S.allocs_cap
  /\ reports_' = S.reports_
  /\ tables' = S.tables
  /\ profiler_' = S.profiler_
  /\ sample' = S.sample
  /\ profile' = S.profile
  /\ stop_result' = S.stop_result
  /\ arena_' = S.arena_
  /\ refcount_' = S.refcount_
  /\ crashed' = S.crashed
  /\ registered' = S.registered
  /\ bcast' = S.bcast
  /\ seen' = S.seen
  /\ pairlog' = S.pairlog
  /\ lifelog' = S.lifelog
  /\ emitted' = S.emitted

\* A table that does not exist (before make_unique, after its destructor).
NoTable == [alive |-> FALSE, table_ |-> {}, start_time_ |-> 0, stop_time_ |-> 0]

\* The empty in-flight map.
EmptyMap == [h \in {} |-> DeallocationSampleRecord]

(***************************************************************************)
(* MyAllocator::LowLevelArenaReference (lines 179-196).                    *)
(***************************************************************************)
\* absl::flat_hash_map grows by raw_hash_set::resize(capacity * 2 + 1): its
\* capacities are 0, 1, 3, 7, ...  Each growth takes a new block from
\* MyAllocator::Allocate and gives the old one to MyAllocator::Free.
NextCapacity(c) == 2 * c + 1

\* raw_hash_set's CapacityToGrowth: the keys a map of capacity c holds before
\* the insertion of a new key makes it grow.
CapacityToGrowth(c) == c - c \div 8

RECURSIVE Capacity(_, _)
\* The capacity of a map that had capacity c once it holds n keys.  erase
\* leaves no tombstone in a map of one group and never shrinks a map, so the
\* capacity of a map is that of the most keys it has held.
Capacity(c, n) ==
  IF n <= CapacityToGrowth(c) THEN c ELSE Capacity(NextCapacity(c), n)

\* Blocks the containers hold in the arena: one per map that has allocated.
AllocationCount(S) ==
  Cardinality({p \in Profilers : S.allocs_cap[p] > 0})
    + Cardinality({p \in Profilers : S.tables[p].alive /\ S.tables[p].table_ # {}})

\* LowLevelAlloc::DeleteArena: refuses an arena that still holds blocks.
DeleteArena(S) == AllocationCount(S) = 0

\* LowLevelArenaReference(): under arena_lock_.
ArenaRefCtor(S) ==
  IF S.crashed THEN S
  ELSE IF S.refcount_ = 0
  THEN IF S.arena_ # NULL
       THEN [S EXCEPT !.refcount_ = 1, !.crashed = TRUE]
       ELSE [S EXCEPT !.refcount_ = 1, !.arena_ = ARENA]
  ELSE [S EXCEPT !.refcount_ = @ + 1]

\* ~LowLevelArenaReference(): under arena_lock_.
ArenaRefDtor(S) ==
  IF S.crashed THEN S
  ELSE IF S.refcount_ - 1 = 0
  THEN IF ~DeleteArena(S)
       THEN [S EXCEPT !.refcount_ = 0, !.crashed = TRUE]
       ELSE [S EXCEPT !.refcount_ = 0, !.arena_ = NULL]
  ELSE [S EXCEPT !.refcount_ = @ - 1]

(***************************************************************************)
(* DeallocationStackTraceTable: construction, destruction, SetStopTime.    *)
(***************************************************************************)
\* std::make_unique<DeallocationStackTraceTable>() once arena_ref_ is
\* constructed: table_ is empty and start_time_ = absl::Now().
TableCtor(S, p, now) ==
  [S EXCEPT !.tables[p] = [alive |-> TRUE, table_ |-> {},
                           start_time_ |-> now, stop_time_ |-> 0],
            !.lifelog[p] = EmptyBag]

\* SetStopTime (line 243)
SetStopTime(S, p, now) == [S EXCEPT !.tables[p].stop_time_ = now]

\* Duration (lines 239-241)
Duration(t) == t.stop_time_ - t.start_time_

(***************************************************************************)
(* DeallocationProfilerList::Add and Remove (lines 377-394).               *)
(***************************************************************************)
\* Add that sets first_ without linking the old head behind the new one.
AddDropsRest(S, profiler) ==
  [S EXCEPT !.next_[profiler] = NULL, !.first_ = profiler,
            !.registered = @ \cup {profiler}]

Add(S, profiler) ==
  [S EXCEPT !.next_[profiler] = S.first_, !.first_ = profiler,
            !.registered = @ \cup {profiler}]

RECURSIVE RemoveWalk(_, _, _, _)
\* The while loop of Remove; link is the profiler whose next_ it points to, or
\* NULL when it points to first_.
RemoveWalk(S, profiler, link, c) ==
  IF c = profiler
  THEN IF link = NULL
       THEN [S EXCEPT !.first_ = S.next_[profiler]]
       ELSE [S EXCEPT !.next_[link] = S.next_[profiler]]
  ELSE IF c = NULL THEN [S EXCEPT !.crashed = TRUE]
  ELSE RemoveWalk(S, profiler, c, S.next_[c])

\* Remove that returns without unlinking the profiler.
RemoveLeavesLinked(S, profiler) == [S EXCEPT !.registered = @ \ {profiler}]

\* Remove that unlinks the head of the list, whichever profiler it is given.
RemoveHead(S, profiler) ==
  IF S.first_ = NULL THEN [S EXCEPT !.crashed = TRUE]
  ELSE [S EXCEPT !.first_ = S.next_[S.first_], !.registered = @ \ {profiler}]

Remove(S, profiler) ==
  LET S1 == RemoveWalk(S, profiler, NULL, S.first_)
  IN  IF S1.crashed THEN S1 ELSE [S1 EXCEPT !.registered = @ \ {profiler}]

(***************************************************************************)
(* DeallocationProfiler::ReportMalloc and ReportFree (lines 330-374).  An  *)
(* event e is the arguments of a broadcast and what the reporting thread   *)
(* reads from its environment:                                             *)
(*   malloc: stack_trace, cpu (GetCurrentCpu), tid (GetTID)                *)
(*   free:   handle, now (absl::Now), cpu, tid, stack (GetStackTrace)      *)
(***************************************************************************)
\* memcpy(allocation.stack, stack_trace.stack, sizeof(void*) * n): the first n
\* frames are overwritten, frames written earlier beyond them stay.
Memcpy(old, src, n) ==
  [i \in 1..(IF Len(old) > n THEN Len(old) ELSE n) |->
     IF i <= n THEN src[i] ELSE old[i]]

\* The record ReportMalloc leaves in allocs_[handle] (lines 335-349).
MallocRecord(allocation, stack_trace, cpu, tid) ==
  [weight |-> WeightOf(stack_trace),
   requested_size |-> stack_trace.requested_size,
   requested_alignment |-> stack_trace.requested_alignment,
   allocated_size |-> stack_trace.allocated_size,
   depth |-> stack_trace.depth,
   stack |-> Memcpy(allocation.stack, stack_trace.stack,
                    Min(stack_trace.depth, kMaxStackDepth)),
   creation_time |-> stack_trace.allocation_time,
   cpu_id |-> cpu,
   thread_id |-> tid]

\* allocs_[handle] = record: the entry is inserted or overwritten.
MapPut(m, handle, record) ==
  [h \in DOMAIN m \cup {handle} |-> IF h = handle THEN record ELSE m[h]]

\* allocs_.erase(it)
MapErase(m, handle) == [h \in DOMAIN m \ {handle} |-> m[h]]

\* ReportMalloc through allocs_.emplace: an entry already there is kept.
ProfilerReportMallocEmplace(S, p, e) ==
  LET handle == e.stack_trace.sampled_alloc_handle
  IN  IF handle \in DOMAIN S.allocs_[p] THEN S
      ELSE [S EXCEPT !.allocs_[p] =
                       MapPut(@, handle,
                              MallocRecord(DeallocationSampleRecord, e.stack_trace,
                                           e.cpu, e.tid)),
                     !.allocs_cap[p] =
                       Capacity(@, Cardinality(DOMAIN S.allocs_[p]) + 1)]

\* DeallocationProfiler::ReportMalloc
ProfilerReportMalloc(S, p, e) ==
  LET handle == e.stack_trace.sampled_alloc_handle
      allocation ==
        IF handle \in DOMAIN S.allocs_[p] THEN S.allocs_[p][handle]
        ELSE DeallocationSampleRecord
  IN  [S EXCEPT !.allocs_[p] =
                  MapPut(@, handle,
                         MallocRecord(allocation, e.stack_trace, e.cpu, e.tid)),
                !.allocs_cap[p] =
                  Capacity(@, Cardinality(DOMAIN S.allocs_[p] \cup {handle}))]

\* The record ReportFree builds for the deallocation (lines 363-371).
FreeRecord(smp, e) ==
  [weight |-> Zero,
   requested_size |-> smp.requested_size,
   requested_alignment |-> smp.requested_alignment,
   allocated_size |-> smp.allocated_size,
   depth |-> Min(Len(e.stack), kMaxStackDepth),
   stack |-> SubSeq(e.stack, 1, Min(Len(e.stack), kMaxStackDepth)),
   creation_time |-> e.now,
   cpu_id |-> e.cpu,
   thread_id |-> e.tid]

\* ReportFree without allocs_.erase(it): the in-flight entry stays.
ProfilerReportFreeKeepsEntry(S, p, e) ==
  IF e.handle \notin DOMAIN S.allocs_[p] THEN S
  ELSE LET smp == S.allocs_[p][e.handle]
           deallocation == FreeRecord(smp, e)
           t == S.reports_[p]
       IN  [S EXCEPT !.tables[t].table_ = AddTrace(@, smp, deallocation),
                     !.pairlog[p] = Append(@, e.handle),
                     !.lifelog[t] = @ (+) SetToBag({Observation(S.tables[t].table_, smp, deallocation)})]

\* ReportFree with allocs_[handle] in place of find and the check against end:
\* an absent handle is paired through a value-initialized record.
ProfilerReportFreeNoCheck(S, p, e) ==
  LET smp == IF e.handle \in DOMAIN S.allocs_[p] THEN S.allocs_[p][e.handle]
             ELSE DeallocationSampleRecord
      deallocation == FreeRecord(smp, e)
      t == S.reports_[p]
  IN  [S EXCEPT !.allocs_[p] = MapErase(@, e.handle),
                !.tables[t].table_ = AddTrace(@, smp, deallocation),
                !.pairlog[p] = Append(@, e.handle),
                     !.lifelog[t] = @ (+) SetToBag({Observation(S.tables[t].table_, smp, deallocation)})]

\* DeallocationProfiler::ReportFree
ProfilerReportFree(S, p, e) ==
  IF e.handle \notin DOMAIN S.allocs_[p] THEN S
  ELSE LET smp == S.allocs_[p][e.handle]
           deallocation == FreeRecord(smp, e)
           t == S.reports_[p]
       IN  [S EXCEPT !.allocs_[p] = MapErase(@, e.handle),
                     !.tables[t].table_ = AddTrace(@, smp, deallocation),
                     !.pairlog[p] = Append(@, e.handle),
                     !.lifelog[t] = @ (+) SetToBag({Observation(S.tables[t].table_, smp, deallocation)})]

(***************************************************************************)
(* DeallocationProfilerList::ReportMalloc and ReportFree (lines 396-414).  *)
(***************************************************************************)
EventHandle(e) ==
  IF e.kind = "malloc" THEN e.stack_trace.sampled_alloc_handle ELSE e.handle

\* What a profiler reads from its environment when it is the given one to
\* read during a walk.  Each profiler reads GetCurrentCpu(), GetTID() and, for
\* a free, absl::Now() and GetStackTrace() itself (lines 344-345, 367-371): e
\* holds what the first read finds, and e.later what has changed by the second,
\* third, ... read.
Reading(e, read) ==
  IF read = 1 \/ e.later = << >> THEN e
  ELSE e.later[Min(read - 1, Len(e.later))] @@ e

\* cur->Report... reads its environment: ReportMalloc always, ReportFree
\* behind the return for a handle it does not hold (lines 356-358).
Reads(S, p, e) == e.kind = "malloc" \/ e.handle \in DOMAIN S.allocs_[p]

\* cur->ReportMalloc(stack_trace) or cur->ReportFree(handle); id is the
\* broadcast's place in bcast, which counts the reads made during the walk,
\* or NULL for a broadcast that bcast does not record.
Deliver(S, p, e, id) ==
  IF id = NULL
  THEN IF e.kind = "malloc" THEN ProfilerReportMalloc(S, p, e)
       ELSE ProfilerReportFree(S, p, e)
  ELSE
  LET r == Reading(e, S.bcast[id].reads + 1)
      S1 == IF e.kind = "malloc" THEN ProfilerReportMalloc(S, p, r)
            ELSE ProfilerReportFree(S, p, r)
  IN  [S1 EXCEPT !.seen[p] = Append(@, id),
                 !.bcast[id].reads = IF Reads(S, p, e) THEN @ + 1 ELSE @]

\* The broadcast enters its critical section.
Announce(S, e) ==
  [S EXCEPT !.bcast = Append(@, [kind |-> e.kind, handle |-> EventHandle(e),
                                 reg |-> S.registered, reads |-> 0])]

RECURSIVE Walk(_, _, _, _)
\* while (cur != nullptr) { cur->Report...; cur = cur->next_; }
Walk(S, c, e, id) ==
  IF c = NULL THEN S ELSE Walk(Deliver(S, c, e, id), S.next_[c], e, id)

\* DeallocationProfilerList::ReportMalloc / ReportFree, the whole call.
Broadcast(S, e) ==
  LET S1 == Announce(S, e) IN Walk(S1, S1.first_, e, Len(S1.bcast))

(***************************************************************************)
(* Inputs: the events of the model.                                       *)
(***************************************************************************)
Handles == {1, 2}
Cpus == {0, 3}
Tids == {100, 101}
StackTraceOf(handle, trace) == trace @@ [sampled_alloc_handle |-> handle]

\* Calls during which the clock and the CPU stay as the first visit reads them.
MallocEvents(H, T, C, I) ==
  {[kind |-> "malloc", stack_trace |-> StackTraceOf(h, t), cpu |-> c, tid |-> i,
    later |-> << >>] :
     h \in H, t \in T, c \in C, i \in I}

FreeEvents(H, N, C, I, D) ==
  {[kind |-> "free", handle |-> h, now |-> n, cpu |-> c, tid |-> i, stack |-> d,
    later |-> << >>] :
     h \in H, n \in N, c \in C, i \in I, d \in D}

\* The calls E with the readings r from the second visit on.
Later(E, r) == {[e EXCEPT !.later = <<r>>] : e \in E}

\* Where frees run: every combination of CPU and thread from one call site,
\* and a second call site on the allocating CPU and thread.
FreeContexts(H, N) ==
  FreeEvents(H, N, Cpus, Tids, {<<201>>})
    \cup FreeEvents(H, N, {0}, {100}, {<<202, 203>>})

NoEvent == [kind |-> "none"]

(***************************************************************************)
(* Threads, and the state after construction of the list.                 *)
(***************************************************************************)
Threads == {1, 2}

threadvars == <<profilers_lock_, cur, ev, arena_lock_, todo>>

Init ==
  /\ first_ = NULL
  /\ next_ = [p \in Profilers |-> NULL]
  /\ allocs_ = [p \in Profilers |-> EmptyMap]
  /\ allocs_cap = [p \in Profilers |-> 0]
  /\ reports_ = [p \in Profilers |-> NULL]
  /\ tables = [p \in Profilers |-> NoTable]
  /\ profiler_ = [p \in Profilers |-> NULL]
  /\ sample = [p \in Profilers |-> "unborn"]
  /\ profile = [p \in Profilers |-> NULL]
  /\ stop_result = [p \in Profilers |-> "none"]
  /\ arena_ = NULL
  /\ refcount_ = 0
  /\ crashed = FALSE
  /\ registered = {}
  /\ bcast = << >>
  /\ seen = [p \in Profilers |-> << >>]
  /\ pairlog = [p \in Profilers |-> << >>]
  /\ lifelog = [p \in Profilers |-> EmptyBag]
  /\ emitted = [p \in Profilers |-> NoTable]
  /\ stopwatch = [p \in Profilers |-> [start |-> 0, stop |-> 0]]
  /\ profilers_lock_ = NoThread
  /\ cur = [t \in Threads |-> NULL]
  /\ ev = [t \in Threads |-> NoEvent]
  /\ arena_lock_ = NoThread
  /\ todo = [t \in Threads |-> << >>]

\* The sampler hands out the allocation handles in order.
InOrder(e) ==
  \A h \in Handles :
    h < EventHandle(e) => \E i \in 1..Len(bcast) : bcast[i].handle = h

\* The call site that allocates handle h in Spec.
TraceOfHandle(h) == IF h = 1 THEN TraceA ELSE TraceC

\* The inputs of Spec: two profilers, two handles, each allocated from its own
\* call site.  During a walk over two profilers the environment moves on: the
\* allocating thread migrates from CPU 0 to CPU 3 between the two reads of
\* GetCurrentCpu(), and the clock advances by 1 ns between the two reads of
\* absl::Now().
SysMallocEvents ==
  UNION {Later(MallocEvents({h}, {TraceOfHandle(h)}, {0}, {100}), [cpu |-> 3]) :
           h \in Handles}
SysFreeEvents ==
  Later(FreeEvents(Handles, {5000}, {0}, {100}, {<<201>>}), [now |-> 5001])

(***************************************************************************)
(* SpinLock.                                                               *)
(***************************************************************************)
\* A lock that is always granted.
SpinLockAlwaysFree(holder) == TRUE

\* absl::base_internal::SpinLockHolder h(&profilers_lock_) can proceed.
SpinLockFree(holder) == holder = NoThread

(***************************************************************************)
(* The calls as the threads run them, one step per lock acquisition, per   *)
(* critical section of arena_lock_ and profilers_lock_, per unlocked       *)
(* access to a profiler's members, and two steps per visit of a list walk. *)
(* todo[t] holds the steps thread t has left in its call; ev[t] holds the  *)
(* call's arguments.  Handles of DeallocationSample and allocation handles *)
(* are numbered in the order of their first use: a handle's constructor is *)
(* entered after those of the lower handles were entered, and runs along   *)
(* with them.  A handle emptied by Stop stays "live": its destructor finds *)
(* profiler_ null and changes nothing.                                     *)
(***************************************************************************)
Op(name, p, arg) == [op |-> name, p |-> p, arg |-> arg]

\* Thread t is about to run the step called name.
At(t, name) == todo[t] # << >> /\ todo[t][1].op = name

\* No thread is inside a call on handle p.
FineUnused(p) ==
  \A t \in Threads :
    (todo[t] # << >> /\ ev[t].kind \in {"start", "stop", "destroy", "drop"})
      => ev[t].p # p

\* cur->ReportMalloc / cur->ReportFree calls MyAllocator::Allocate: the
\* insertion of a new handle makes allocs_ grow (line 333), or the insertion
\* of a new key makes table_ grow (line 436).  table_ never erases, so its
\* capacity is that of the keys it holds.
Allocates(p, e) ==
  \/ /\ e.kind = "malloc"
     /\ EventHandle(e) \notin DOMAIN allocs_[p]
     /\ Capacity(allocs_cap[p], Cardinality(DOMAIN allocs_[p]) + 1) # allocs_cap[p]
  \/ /\ e.kind = "free"
     /\ e.handle \in DOMAIN allocs_[p]
     /\ LET t == reports_[p]
            S1 == ProfilerReportFree(Cur, p, Reading(e, bcast[e.id].reads + 1))
        IN  Capacity(0, Cardinality(S1.tables[t].table_))
              # Capacity(0, Cardinality(tables[t].table_))

\* ~flat_hash_map of allocs_ that also deletes the table the profiler
\* created, wherever it is by now.
MapFreeWithTable(S, p) ==
  [S EXCEPT !.allocs_[p] = EmptyMap, !.allocs_cap[p] = 0,
            !.tables[p] = NoTable]

\* The blocks of allocs_ go back to the arena: ~flat_hash_map.
MapFree(S, p) == [S EXCEPT !.allocs_[p] = EmptyMap, !.allocs_cap[p] = 0]

\* The blocks of table_ go back to the arena; the table's arena_ref_ is still
\* to be destroyed.
TableFree(S, t) == [S EXCEPT !.tables[t] = NoTable, !.lifelog[t] = EmptyBag]

\* SpinLockHolder h(&arena_lock_) in a constructor or destructor of
\* LowLevelArenaReference that is not the first step of a call.
FineArenaLock(t) ==
  /\ ~crashed
  /\ At(t, "arena_lock")
  /\ SpinLockFree(arena_lock_)
  /\ arena_lock_' = t
  /\ todo' = [todo EXCEPT ![t] = Tail(@)]
  /\ Becomes(Cur)
  /\ UNCHANGED <<stopwatch, profilers_lock_, cur, ev>>

\* SpinLockHolder h(&profilers_lock_) in Add or Remove.
FineListLock(t) ==
  /\ ~crashed
  /\ At(t, "list_lock")
  /\ SpinLockFree(profilers_lock_)
  /\ profilers_lock_' = t
  /\ todo' = [todo EXCEPT ![t] = Tail(@)]
  /\ Becomes(Cur)
  /\ UNCHANGED <<stopwatch, arena_lock_, cur, ev>>

\* DeallocationSample sample(list): the constructor of the profiler enters
\* the constructor of its arena_ref_ and takes arena_lock_.
FineStart(t, p, now) ==
  /\ ~crashed
  /\ todo[t] = << >>
  /\ sample[p] = "unborn"
  /\ FineUnused(p)
  /\ \A q \in Profilers : q < p => (sample[q] # "unborn" \/ ~FineUnused(q))
  /\ SpinLockFree(arena_lock_)
  /\ arena_lock_' = t
  /\ todo' = [todo EXCEPT ![t] =
                <<Op("ref_ctor_profiler", p, now), Op("arena_lock", p, now),
                  Op("ref_ctor_table", p, now), Op("table_ctor", p, now),
                  Op("list_lock", p, now), Op("add", p, now),
                  Op("ctor_return", p, now)>>]
  /\ ev' = [ev EXCEPT ![t] = [kind |-> "start", p |-> p]]
  /\ stopwatch' = [stopwatch EXCEPT ![p].start = now]
  /\ Becomes(Cur)
  /\ UNCHANGED <<profilers_lock_, cur>>

\* The profiler's arena_ref_ is constructed under arena_lock_ and the lock
\* is released.  allocs_ is then constructed empty and reports_ null, which
\* is what they are for a handle that was never used.
FineRefCtorProfiler(t) ==
  /\ ~crashed
  /\ At(t, "ref_ctor_profiler")
  /\ arena_lock_ = t
  /\ Becomes(ArenaRefCtor(Cur))
  /\ arena_lock_' = NoThread
  /\ todo' = [todo EXCEPT ![t] = Tail(@)]
  /\ UNCHANGED <<stopwatch, profilers_lock_, cur, ev>>

\* std::make_unique<DeallocationStackTraceTable>(): the table's arena_ref_ is
\* constructed under arena_lock_ and the lock is released.
FineRefCtorTable(t) ==
  /\ ~crashed
  /\ At(t, "ref_ctor_table")
  /\ arena_lock_ = t
  /\ Becomes(ArenaRefCtor(Cur))
  /\ arena_lock_' = NoThread
  /\ todo' = [todo EXCEPT ![t] = Tail(@)]
  /\ UNCHANGED <<stopwatch, profilers_lock_, cur, ev>>

\* No lock held: the rest of the table is constructed and reports_ takes it
\* (line 310).
FineTableCtor(t) ==
  /\ ~crashed
  /\ At(t, "table_ctor")
  /\ LET p == todo[t][1].p
     IN  Becomes([TableCtor(Cur, p, todo[t][1].arg) EXCEPT !.reports_[p] = p])
  /\ todo' = [todo EXCEPT ![t] = Tail(@)]
  /\ UNCHANGED <<stopwatch, profilers_lock_, arena_lock_, cur, ev>>

\* list_->Add(this) under profilers_lock_, and the lock is released.
FineAdd(t) ==
  /\ ~crashed
  /\ At(t, "add")
  /\ profilers_lock_ = t
  /\ Becomes(Add(Cur, todo[t][1].p))
  /\ profilers_lock_' = NoThread
  /\ todo' = [todo EXCEPT ![t] = Tail(@)]
  /\ UNCHANGED <<stopwatch, arena_lock_, cur, ev>>

\* No lock held: the constructors return and the handle's profiler_ takes
\* the profiler (line 524).
FineCtorReturns(t) ==
  /\ ~crashed
  /\ At(t, "ctor_return")
  /\ LET p == todo[t][1].p
     IN  Becomes([Cur EXCEPT !.profiler_[p] = p, !.sample[p] = "live"])
  /\ todo' = [todo EXCEPT ![t] = << >>]
  /\ ev' = [ev EXCEPT ![t] = NoEvent]
  /\ UNCHANGED <<stopwatch, profilers_lock_, arena_lock_, cur>>

\* A destructor of an unstopped profiler that does not call Stop: the
\* profiler stays in the list.
FineStopNoRemove(t, p, now, kind) ==
  /\ ~crashed
  /\ todo[t] = << >>
  /\ sample[p] = "live"
  /\ profiler_[p] # NULL
  /\ FineUnused(p)
  /\ Becomes(SetStopTime(Cur, reports_[p], now))
  /\ stopwatch' = IF kind = "stop" THEN [stopwatch EXCEPT ![p].stop = now]
                  ELSE stopwatch
  /\ todo' = [todo EXCEPT ![t] =
                (IF kind = "destroy" THEN << >>
                 ELSE <<Op("list_lock", p, now), Op("remove", p, now)>>)
                \o <<Op("retire", p, now)>>
                \o (IF kind = "destroy"
                    THEN <<Op("arena_lock", p, now), Op("ref_dtor_table", p, now),
                           Op("map_dtor", p, now)>>
                    ELSE << >>)
                \o <<Op("arena_lock", p, now), Op("ref_dtor_profiler", p, now),
                     Op("return", p, now)>>]
  /\ ev' = [ev EXCEPT ![t] = [kind |-> kind, p |-> p, ret |-> NULL]]
  /\ UNCHANGED <<profilers_lock_, arena_lock_, cur>>

\* Stop, called by DeallocationSample::Stop ("stop") or by the destructor of
\* an unstopped profiler ("destroy"): reports_->SetStopTime(), no lock held.
FineStop(t, p, now, kind) ==
  /\ ~crashed
  /\ todo[t] = << >>
  /\ sample[p] = "live"
  /\ profiler_[p] # NULL
  /\ FineUnused(p)
  /\ Becomes(SetStopTime(Cur, reports_[p], now))
  /\ stopwatch' = IF kind = "stop" THEN [stopwatch EXCEPT ![p].stop = now]
                  ELSE stopwatch
  /\ todo' = [todo EXCEPT ![t] =
                <<Op("list_lock", p, now), Op("remove", p, now),
                  Op("retire", p, now)>>
                \o (IF kind = "destroy"
                    THEN <<Op("arena_lock", p, now), Op("ref_dtor_table", p, now),
                           Op("map_dtor", p, now)>>
                    ELSE << >>)
                \o <<Op("arena_lock", p, now), Op("ref_dtor_profiler", p, now),
                     Op("return", p, now)>>]
  /\ ev' = [ev EXCEPT ![t] = [kind |-> kind, p |-> p, ret |-> NULL]]
  /\ UNCHANGED <<profilers_lock_, arena_lock_, cur>>

\* DeallocationSample::Stop of a handle that holds no profiler (line 533):
\* an empty Profile is returned, which the caller lets go.
FineStopAgain(t, p) ==
  /\ ~crashed
  /\ todo[t] = << >>
  /\ sample[p] = "live"
  /\ profiler_[p] = NULL
  /\ FineUnused(p)
  /\ Becomes([Cur EXCEPT !.stop_result[p] = "empty"])
  /\ UNCHANGED <<stopwatch, profilers_lock_, arena_lock_, cur, ev, todo>>

\* list_->Remove(this) under profilers_lock_, and the lock is released.
FineRemove(t) ==
  /\ ~crashed
  /\ At(t, "remove")
  /\ profilers_lock_ = t
  /\ Becomes(Remove(Cur, todo[t][1].p))
  /\ profilers_lock_' = NoThread
  /\ todo' = [todo EXCEPT ![t] = Tail(@)]
  /\ UNCHANGED <<stopwatch, arena_lock_, cur, ev>>

\* After Remove, no lock held: MakeProfile(std::move(reports_)).  In
\* DeallocationSample::Stop, profiler_.reset() (line 530) then stores nullptr
\* in profiler_ and destroys the profiler, whose allocs_ gives its blocks
\* back; in the destructor the Profile is a temporary whose table_ gives its
\* blocks back first.
FineRetire(t) ==
  /\ ~crashed
  /\ At(t, "retire")
  /\ LET p == todo[t][1].p
         S1 == [Cur EXCEPT !.reports_[p] = NULL]
     IN  /\ Becomes(IF ev[t].kind = "destroy"
                    THEN TableFree(S1, reports_[p])
                    ELSE MapFree([S1 EXCEPT !.profiler_[p] = NULL], p))
         /\ ev' = [ev EXCEPT ![t].ret = reports_[p]]
  /\ todo' = [todo EXCEPT ![t] = Tail(@)]
  /\ UNCHANGED <<stopwatch, profilers_lock_, arena_lock_, cur>>

\* The arena_ref_ of the temporary Profile's table is destroyed under
\* arena_lock_ and the lock is released.
FineRefDtorTable(t) ==
  /\ ~crashed
  /\ At(t, "ref_dtor_table")
  /\ arena_lock_ = t
  /\ Becomes(ArenaRefDtor(Cur))
  /\ arena_lock_' = NoThread
  /\ todo' = [todo EXCEPT ![t] = Tail(@)]
  /\ UNCHANGED <<stopwatch, profilers_lock_, cur, ev>>

\* No lock held, in the destructor of an unstopped profiler: Stop has
\* returned and the members are destroyed, allocs_ first, which gives its
\* blocks back.
FineMapDtor(t) ==
  /\ ~crashed
  /\ At(t, "map_dtor")
  /\ Becomes(MapFree(Cur, todo[t][1].p))
  /\ todo' = [todo EXCEPT ![t] = Tail(@)]
  /\ UNCHANGED <<stopwatch, profilers_lock_, arena_lock_, cur, ev>>

\* The profiler's arena_ref_ is destroyed under arena_lock_ and the lock is
\* released.
FineRefDtorProfiler(t) ==
  /\ ~crashed
  /\ At(t, "ref_dtor_profiler")
  /\ arena_lock_ = t
  /\ Becomes(ArenaRefDtor(Cur))
  /\ arena_lock_' = NoThread
  /\ todo' = [todo EXCEPT ![t] = Tail(@)]
  /\ UNCHANGED <<stopwatch, profilers_lock_, cur, ev>>

\* No lock held: the profiler is deleted and the call returns.
\* DeallocationSample::Stop hands the Profile to its caller (line 531); the
\* destructor of the handle ends.
FineReturns(t) ==
  /\ ~crashed
  /\ At(t, "return")
  /\ LET p == todo[t][1].p
     IN  Becomes(IF ev[t].kind = "destroy"
                 THEN [Cur EXCEPT !.profiler_[p] = NULL, !.sample[p] = "destroyed"]
                 ELSE [Cur EXCEPT !.profile[p] = ev[t].ret,
                                  !.stop_result[p] = "table",
                                  !.emitted[p] = tables[ev[t].ret]])
  /\ todo' = [todo EXCEPT ![t] = << >>]
  /\ ev' = [ev EXCEPT ![t] = NoEvent]
  /\ UNCHANGED <<stopwatch, profilers_lock_, arena_lock_, cur>>

\* The caller lets go of the Profile that Stop returned: it holds it no
\* longer, and table_ gives its blocks back, no lock held.
FineDrop(t, p) ==
  /\ ~crashed
  /\ todo[t] = << >>
  /\ profile[p] # NULL
  /\ FineUnused(p)
  /\ Becomes([TableFree(Cur, profile[p]) EXCEPT !.profile[p] = NULL,
                                                !.emitted[p] = NoTable])
  /\ todo' = [todo EXCEPT ![t] =
                <<Op("arena_lock", p, 0), Op("ref_dtor_profile", p, 0)>>]
  /\ ev' = [ev EXCEPT ![t] = [kind |-> "drop", p |-> p]]
  /\ UNCHANGED <<stopwatch, profilers_lock_, arena_lock_, cur>>

\* The end of ~DeallocationStackTraceTable without the destruction of its
\* arena_ref_.
FineRefDtorProfileKeepsRef(t) ==
  /\ ~crashed
  /\ At(t, "ref_dtor_profile")
  /\ arena_lock_ = t
  /\ Becomes(Cur)
  /\ arena_lock_' = NoThread
  /\ todo' = [todo EXCEPT ![t] = << >>]
  /\ ev' = [ev EXCEPT ![t] = NoEvent]
  /\ UNCHANGED <<stopwatch, profilers_lock_, cur>>

\* The arena_ref_ of the Profile's table is destroyed under arena_lock_.
FineRefDtorProfile(t) ==
  /\ ~crashed
  /\ At(t, "ref_dtor_profile")
  /\ arena_lock_ = t
  /\ Becomes(ArenaRefDtor(Cur))
  /\ arena_lock_' = NoThread
  /\ todo' = [todo EXCEPT ![t] = << >>]
  /\ ev' = [ev EXCEPT ![t] = NoEvent]
  /\ UNCHANGED <<stopwatch, profilers_lock_, cur>>

\* ReportMalloc / ReportFree: profilers_lock_ is taken and cur = first_.
FineEnter(t, e) ==
  /\ ~crashed
  /\ todo[t] = << >>
  /\ Len(bcast) < MaxFineEvents
  /\ InOrder(e)
  /\ SpinLockFree(profilers_lock_)
  /\ Becomes(Announce(Cur, e))
  /\ profilers_lock_' = t
  /\ cur' = [cur EXCEPT ![t] = first_]
  /\ ev' = [ev EXCEPT ![t] = e @@ [id |-> Len(bcast) + 1]]
  /\ todo' = [todo EXCEPT ![t] = <<Op("walk", NULL, NULL)>>]
  /\ UNCHANGED <<stopwatch, arena_lock_>>

\* cur != nullptr: the thread enters cur->ReportMalloc / cur->ReportFree.  If
\* the call is going to allocate, Allocate reads arena_ (line 171); arg
\* keeps what it read.
FineVisitBegin(t) ==
  /\ ~crashed
  /\ At(t, "walk")
  /\ cur[t] # NULL
  /\ todo' = [todo EXCEPT ![t] =
                <<Op("visit", cur[t],
                     IF Allocates(cur[t], ev[t]) THEN arena_ ELSE NULL)>>]
  /\ Becomes(Cur)
  /\ UNCHANGED <<stopwatch, profilers_lock_, arena_lock_, cur, ev>>

\* What the walking thread itself does when the visit returns:
\* cur = cur->next_, and back to the loop test.
FineVisitReturns(t) ==
  /\ ~crashed
  /\ At(t, "visit")
  /\ cur' = [cur EXCEPT ![t] = next_[cur[t]]]
  /\ todo' = [todo EXCEPT ![t] = <<Op("walk", NULL, NULL)>>]

\* cur->ReportMalloc / cur->ReportFree returns and cur = cur->next_.
FineVisitEnd(t) ==
  /\ FineVisitReturns(t)
  /\ Becomes(Deliver(Cur, cur[t], ev[t], ev[t].id))
  /\ UNCHANGED <<stopwatch, profilers_lock_, arena_lock_, ev>>

\* A walk that ends without releasing profilers_lock_.
FineExitKeepsLock(t) ==
  /\ ~crashed
  /\ At(t, "walk")
  /\ cur[t] = NULL
  /\ todo' = [todo EXCEPT ![t] = << >>]
  /\ ev' = [ev EXCEPT ![t] = NoEvent]
  /\ Becomes(Cur)
  /\ UNCHANGED <<stopwatch, profilers_lock_, arena_lock_, cur>>

\* cur == nullptr: the walk ends and profilers_lock_ is released.
FineExit(t) ==
  /\ ~crashed
  /\ At(t, "walk")
  /\ cur[t] = NULL
  /\ profilers_lock_' = NoThread
  /\ todo' = [todo EXCEPT ![t] = << >>]
  /\ ev' = [ev EXCEPT ![t] = NoEvent]
  /\ Becomes(Cur)
  /\ UNCHANGED <<stopwatch, arena_lock_, cur>>

\* A call of a profiler's owner begins on thread t.
FineOwner(t) ==
  \/ \E p \in Profilers : FineStart(t, p, 1000)
  \/ \E p \in Profilers : FineStop(t, p, 5000, "stop")
  \/ \E p \in Profilers : FineStopAgain(t, p)
  \/ \E p \in Profilers : FineStop(t, p, 5000, "destroy")
  \/ \E p \in Profilers : FineDrop(t, p)

\* A call begins on thread t.
FineBegin(t) ==
  \/ FineOwner(t)
  \/ \E e \in SysMallocEvents \cup SysFreeEvents : FineEnter(t, e)

\* The steps inside the calls of a profiler's owner that need no lock to be
\* free.
FineLifecycle(t) ==
  \/ FineRefCtorProfiler(t)
  \/ FineRefCtorTable(t)
  \/ FineTableCtor(t)
  \/ FineAdd(t)
  \/ FineCtorReturns(t)
  \/ FineRemove(t)
  \/ FineRetire(t)
  \/ FineRefDtorTable(t)
  \/ FineMapDtor(t)
  \/ FineRefDtorProfiler(t)
  \/ FineReturns(t)
  \/ FineRefDtorProfile(t)

\* The steps of a call in progress that need no lock to be free, but for the
\* end of a visit.
FineCall(t) == FineLifecycle(t) \/ FineVisitBegin(t) \/ FineExit(t)

\* The steps of a call in progress that need no lock to be free.
FineContinue(t) == FineCall(t) \/ FineVisitEnd(t)

(***************************************************************************)
(* The owner of the profilers: thread 1 makes the calls on the handles,    *)
(* one after the other, each step by step.                                 *)
(***************************************************************************)
Owner == 1

\* A call on handle p begins; a Stop reads one of the clock readings N.
OwnerBegins(p, N) ==
  \/ FineStart(Owner, p, 1000)
  \/ \E now \in N : FineStop(Owner, p, now, "stop")
  \/ FineStopAgain(Owner, p)
  \/ FineStop(Owner, p, 5000, "destroy")
  \/ FineDrop(Owner, p)

\* The call in progress takes its next step.
OwnerRuns ==
  FineArenaLock(Owner) \/ FineListLock(Owner) \/ FineLifecycle(Owner)

(***************************************************************************)
(* A broadcast as one step.  ReportMalloc and ReportFree hold              *)
(* profilers_lock_ from entry to return, and so do Add and Remove: a       *)
(* broadcast begins when the lock is free, and what the owner's thread can *)
(* do before it returns (SetStopTime, the steps on the arena, the release  *)
(* of a map or table that is no longer linked) touches neither the list    *)
(* nor anything a visit reads or writes.  NextFine has the steps of a      *)
(* walk one by one.                                                        *)
(***************************************************************************)
\* A broadcast of event e, one of at most n of a behaviour.
Reported(e, n) ==
  /\ ~crashed
  /\ Len(bcast) < n
  /\ InOrder(e)
  /\ SpinLockFree(profilers_lock_)
  /\ Becomes(Broadcast(Cur, e))
  /\ UNCHANGED <<stopwatch, threadvars>>

\* DeallocationProfilerList::ReportMalloc
ReportMalloc(e) == Reported(e, MaxEvents)

\* DeallocationProfilerList::ReportFree
ReportFree(e) == Reported(e, MaxEvents)

(***************************************************************************)
(* Spec: two profilers and two handles, each allocated from its own call   *)
(* site.                                                                   *)
(***************************************************************************)
Next ==
  \/ \E p \in Profilers : OwnerBegins(p, {5000})
  \/ OwnerRuns
  \/ \E e \in SysMallocEvents : ReportMalloc(e)
  \/ \E e \in SysFreeEvents : ReportFree(e)

Spec == Init /\ [][Next]_vars

(***************************************************************************)
(* SpecData: one profiler under every combination of the inputs.           *)
(***************************************************************************)
\* Every trace for every handle on CPU 0 / thread 100.
DataMallocEvents == MallocEvents(Handles, Traces, {0}, {100})
DataFreeEvents == FreeContexts(Handles, Times)

NextData ==
  \/ OwnerBegins(1, Times)
  \/ OwnerRuns
  \/ \E e \in DataMallocEvents : ReportMalloc(e)
  \/ \E e \in DataFreeEvents : ReportFree(e)

SpecData == Init /\ [][NextData]_vars

(***************************************************************************)
(* SpecFlags: one profiler, allocations on CPU 0 / thread 100 from two     *)
(* call sites, frees at one clock reading from every combination of CPU    *)
(* and thread.                                                             *)
(***************************************************************************)
FlagMallocEvents == MallocEvents(Handles, {TraceA, TraceC}, {0}, {100})
FlagFreeEvents == FreeContexts(Handles, {5000})

NextFlags ==
  \/ OwnerBegins(1, {5000})
  \/ OwnerRuns
  \/ \E e \in FlagMallocEvents : ReportMalloc(e)
  \/ \E e \in FlagFreeEvents : ReportFree(e)

SpecFlags == Init /\ [][NextFlags]_vars

(***************************************************************************)
(* SpecLife: one profiler, one call site sampled at two allocation times,  *)
(* frees by the allocating thread on the allocating CPU at every clock     *)
(* reading: up to three lifetimes of -4000, 0 and 4000 ns in one slot of   *)
(* one key, so that mean and variance take values that are rounded.        *)
(***************************************************************************)
LifeMallocEvents == MallocEvents(Handles, {TraceA, TraceB}, {0}, {100})
LifeFreeEvents == FreeEvents(Handles, Times, {0}, {100}, {<<201>>})

NextLife ==
  \/ OwnerBegins(1, {5000})
  \/ OwnerRuns
  \/ \E e \in LifeMallocEvents : Reported(e, MaxLifeEvents)
  \/ \E e \in LifeFreeEvents : Reported(e, MaxLifeEvents)

SpecLife == Init /\ [][NextLife]_vars

(***************************************************************************)
(* SpecRepeat: SpecData with one more allocation, made on another CPU by   *)
(* another thread, so that a handle reported twice while in flight has two *)
(* records that differ in every field.                                     *)
(***************************************************************************)
RepeatMallocEvents ==
  DataMallocEvents \cup MallocEvents({1}, {TraceC}, {3}, {101})

NextRepeat ==
  \/ OwnerBegins(1, Times)
  \/ OwnerRuns
  \/ \E e \in RepeatMallocEvents : ReportMalloc(e)
  \/ \E e \in DataFreeEvents : ReportFree(e)

SpecRepeat == Init /\ [][NextRepeat]_vars

(***************************************************************************)
(* SpecDeep: one profiler given stack traces at and beyond the capacity of *)
(* the record's stack array.  ReportMalloc stores stack_trace.depth as it  *)
(* is (line 338) and copies min(depth, kMaxStackDepth) frames (lines       *)
(* 339-341).  A record with depth > kMaxStackDepth makes ReportFree read   *)
(* stack[kMaxStackDepth..depth) when it hashes and compares the key        *)
(* (lines 96-109, 373, 436): undefined behaviour, modelled as a choice     *)
(* between a trapped access and a read of whatever lies behind the array.  *)
(***************************************************************************)
DeepMallocEvents == MallocEvents(Handles, {TraceA, TraceFull, TraceDeep}, {0}, {100})
DeepFreeEvents == FreeEvents(Handles, {5000}, {0}, {100}, {<<201>>})

\* What a read behind the stack array may find.
BeyondFrames == {0, 1000}

\* Profiler p holds an in-flight record for h whose depth exceeds the array.
Overdeep(p, h) ==
  h \in DOMAIN allocs_[p] /\ allocs_[p][h].depth > kMaxStackDepth

\* The records of h as a use that walks depth frames sees them: frames behind
\* the array read as g.
Overread(S, h, g) ==
  [S EXCEPT !.allocs_ =
     [p \in Profilers |->
        [k \in DOMAIN S.allocs_[p] |->
           LET r == S.allocs_[p][k]
           IN  IF k = h /\ r.depth > Len(r.stack)
               THEN [r EXCEPT !.stack =
                       [i \in 1..r.depth |-> IF i <= Len(r.stack) THEN r.stack[i] ELSE g]]
               ELSE r]]]

\* ReportFree of a handle whose record is over-deep: the access behind the
\* array is trapped and the process ends.
ReportFreeTrapped(e) ==
  /\ ~crashed
  /\ Len(bcast) < MaxEvents
  /\ InOrder(e)
  /\ \E p \in registered : Overdeep(p, e.handle)
  /\ SpinLockFree(profilers_lock_)
  /\ Becomes([Announce(Cur, e) EXCEPT !.crashed = TRUE])
  /\ UNCHANGED <<stopwatch, threadvars>>

\* ReportFree of a handle whose record is over-deep: the access behind the
\* array reads g and the call goes on with it.
ReportFreeOverread(e, g) ==
  /\ ~crashed
  /\ Len(bcast) < MaxEvents
  /\ InOrder(e)
  /\ \E p \in registered : Overdeep(p, e.handle)
  /\ SpinLockFree(profilers_lock_)
  /\ Becomes(Broadcast(Overread(Cur, e.handle, g), e))
  /\ UNCHANGED <<stopwatch, threadvars>>

NextDeep ==
  \/ OwnerBegins(1, {5000})
  \/ OwnerRuns
  \/ \E e \in DeepMallocEvents : ReportMalloc(e)
  \/ \E e \in DeepFreeEvents :
       (\A p \in registered : ~Overdeep(p, e.handle)) /\ ReportFree(e)
  \/ \E e \in DeepFreeEvents : ReportFreeTrapped(e)
  \/ \E e \in DeepFreeEvents : \E g \in BeyondFrames : ReportFreeOverread(e, g)

SpecDeep == Init /\ [][NextDeep]_vars

(***************************************************************************)
(* SpecFine: two threads, each making the calls of an owner and the       *)
(* broadcasts, every call step by step.                                    *)
(***************************************************************************)
NextFine ==
  \E t \in Threads :
    FineBegin(t) \/ FineArenaLock(t) \/ FineListLock(t) \/ FineContinue(t)

SpecFine == Init /\ [][NextFine]_vars

\* Thread t, inside a call and not waiting for a lock, takes its next step.
\* A step of NextFine is a FineVisitReturns(t) step exactly when it is a
\* FineVisitEnd(t) step, and both are enabled in the same states (ReportMalloc
\* and ReportFree have no loop and take no lock), so FineRuns(t) is
\* FineContinue(t) with the record keeping of the visit left to NextFine.
\* Each of its steps changes todo[t].
FineRuns(t) == FineCall(t) \/ FineVisitReturns(t)

\* A broadcast begins on thread t.
FairEnter(t, e) == Len(bcast) < MaxFairEvents /\ FineEnter(t, e)

\* ReportMalloc / ReportFree that leaves every profiler in the list as it
\* is: ReportFree of a handle that none of them holds in flight, ReportMalloc
\* that repeats a record.  The walk takes profilers_lock_ and visits every
\* profiler like any other; bcast does not record it, and a behaviour has
\* any number of them, one after the other, on any thread.
FairRepeat(t, e) ==
  /\ ~crashed
  /\ todo[t] = << >>
  /\ \A p \in registered : Deliver(Cur, p, e, NULL) = Cur
  /\ SpinLockFree(profilers_lock_)
  /\ Becomes(Cur)
  /\ profilers_lock_' = t
  /\ cur' = [cur EXCEPT ![t] = first_]
  /\ ev' = [ev EXCEPT ![t] = e @@ [id |-> NULL]]
  /\ todo' = [todo EXCEPT ![t] = <<Op("walk", NULL, NULL)>>]
  /\ UNCHANGED <<stopwatch, arena_lock_>>

NextFair ==
  \E t \in Threads :
    \/ FineOwner(t)
    \/ \E e \in SysMallocEvents \cup SysFreeEvents : FairEnter(t, e)
    \/ \E e \in SysMallocEvents \cup SysFreeEvents : FairRepeat(t, e)
    \/ FineArenaLock(t)
    \/ FineListLock(t)
    \/ FineContinue(t)

\* The steps of SpecFine, with broadcasts without end, under fair scheduling:
\* a thread inside a call keeps running (weak fairness of its steps), and a
\* thread spinning on a lock gets it if the lock is free again and again
\* (strong fairness of the acquisition; under weak fairness a thread that
\* broadcasts again and again keeps Remove waiting for ever).  Nothing
\* obliges a caller to begin a call.
SpecFair ==
  /\ Init
  /\ [][NextFair]_vars
  /\ \A t \in Threads :
       /\ WF_todo(FineRuns(t))
       /\ SF_vars(FineListLock(t))
       /\ SF_vars(FineArenaLock(t))

(***************************************************************************)
(* Readings of a state and of a step that the properties below share.      *)
(***************************************************************************)
RECURSIVE SumOver(_, _)
\* The sum of f[x] over the set D.
SumOver(f, D) ==
  IF D = {} THEN 0
  ELSE LET x == CHOOSE y \in D : TRUE IN f[x] + SumOver(f, D \ {x})

\* The observations a table holds: all slot counts of all keys.
TotalCount(table_) ==
  LET n == [e \in table_ |-> SumOver(e.v.counts, Cases)]
  IN  SumOver(n, table_)

\* One slot of a Value: its five statistics.
Slot(v, i) ==
  <<v.counts[i], v.mean_life_times_ns[i], v.variance_life_times_ns[i],
    v.min_life_times_ns[i], v.max_life_times_ns[i]>>

\* This step delivers a broadcast of kind k for handle h to profiler p.
Delivered(p, k, h) ==
  /\ Len(seen'[p]) = Len(seen[p]) + 1
  /\ LET id == seen'[p][Len(seen'[p])]
     IN  bcast'[id].kind = k /\ bcast'[id].handle = h

\* By what p has been delivered so far, h is in flight: p observed a malloc of
\* h and no free of h after it.
ObservedInFlight(p, h) ==
  \E i \in 1..Len(seen[p]) :
    /\ bcast[seen[p][i]].kind = "malloc"
    /\ bcast[seen[p][i]].handle = h
    /\ \A j \in (i + 1)..Len(seen[p]) :
         ~(bcast[seen[p][j]].kind = "free" /\ bcast[seen[p][j]].handle = h)

\* The step adds one observation to one slot of one key of p's table, takes h
\* out of p's in-flight map and leaves the rest of both as it was.
OnePairAdded(p, h) ==
  LET T == tables[reports_[p]].table_
      U == tables'[reports_[p]].table_
  IN  /\ reports_'[p] = reports_[p]
      /\ h \notin DOMAIN allocs_'[p]
      /\ DOMAIN allocs_'[p] = DOMAIN allocs_[p] \ {h}
      /\ \A g \in DOMAIN allocs_'[p] : allocs_'[p][g] = allocs_[p][g]
      /\ TotalCount(U) = TotalCount(T) + 1
      /\ \E u \in U, i \in Cases :
           LET olds == {e \in T : e.k = u.k}
               old == IF olds = {} THEN Value ELSE (CHOOSE e \in olds : TRUE).v
           IN  /\ Cardinality(olds) <= 1
               /\ U \ {u} = T \ olds
               /\ u.v.counts[i] = old.counts[i] + 1
               /\ \A j \in Cases \ {i} : Slot(u.v, j) = Slot(old, j)

\* C1 (pair completeness): when a profiler that observed ReportMalloc(h), and
\* no ReportFree(h) since, is delivered ReportFree(h), the step adds exactly
\* one observation to its table, in one slot of one key, removes h from its
\* in-flight map and changes no other key, slot or in-flight entry.
C1_PairCompleteness ==
  [][\A p \in Profilers, h \in Handles :
       (Delivered(p, "free", h) /\ ObservedInFlight(p, h)) => OnePairAdded(p, h)]_vars

\* C1 witness: a second observation has been added to a slot that held one.
C1_Witness ==
  \E p \in Profilers :
    /\ Len(pairlog[p]) = 2
    /\ \E e \in tables[p].table_, i \in Cases : e.v.counts[i] = 2

\* p has been delivered broadcasts, and frees only.
OnlyFrees(p) ==
  /\ seen[p] # << >>
  /\ \A i \in 1..Len(seen[p]) : bcast[seen[p][i]].kind = "free"

\* An emitted profile of a profiler that only saw frees yields no sample in
\* any iteration order, and its duration is the stop time minus the start time.
OrphanProfileEmpty ==
  \A p \in Profilers :
    (profile[p] # NULL /\ OnlyFrees(p)) =>
      /\ Yields(tables[profile[p]]) = {<< >>}
      /\ Duration(tables[profile[p]]) = stopwatch[p].stop - stopwatch[p].start

\* C2 (orphan tolerance): ReportFree(h) delivered to a profiler whose in-flight
\* map does not contain h changes neither that map nor any table; so the
\* profile of a profiler that only saw such frees yields no sample, and its
\* duration is the stop time minus the start time.
C2_OrphanTolerance ==
  /\ []OrphanProfileEmpty
  /\ [][\A p \in Profilers, h \in Handles :
          (Delivered(p, "free", h) /\ h \notin DOMAIN allocs_[p]) =>
            /\ allocs_'[p] = allocs_[p]
            /\ reports_'[p] = reports_[p]
            /\ tables'[reports_[p]] = tables[reports_[p]]
            /\ pairlog'[p] = pairlog[p]]_vars

\* C2 witness: an emitted profile, stopped 4000 ns after its start, of a
\* profiler that was delivered unmatched frees only.
C2_Witness ==
  /\ profile[1] # NULL
  /\ OnlyFrees(1)
  /\ Len(seen[1]) >= 2
  /\ Duration(tables[profile[1]]) = 4000

\* The fields two samples of one pair share: the size and lifetime fields and
\* the matching flags.
SharedFields(x) ==
  <<x.sum, x.requested_size, x.requested_alignment, x.allocated_size,
    x.lifetime_ns, x.stddev_lifetime_ns, x.min_lifetime_ns, x.max_lifetime_ns,
    x.allocator_deallocator_cpu_matched, x.allocator_deallocator_thread_matched>>

\* Samples a and d are the pair of slot index of entry e.
PairOf(a, d, e, c) ==
  /\ a.depth = e.k.alloc.depth
  /\ a.stack = CopyStack(e.k.alloc.stack, e.k.alloc.depth)
  /\ d.depth = e.k.dealloc.depth
  /\ d.stack = CopyStack(e.k.dealloc.stack, e.k.dealloc.depth)
  /\ a.requested_size = e.k.alloc.requested_size
  /\ a.requested_alignment = e.k.alloc.requested_alignment
  /\ a.allocated_size = e.k.alloc.allocated_size
  /\ a.allocator_deallocator_cpu_matched = kAllCases[c][1].cpu_matched
  /\ a.allocator_deallocator_thread_matched = kAllCases[c][1].thread_matched

\* The cases of kAllCases whose slot of entry e is populated.
PopulatedCases(e) ==
  {c \in 1..Len(kAllCases) :
     e.v.counts[ComputeIndex(kAllCases[c][1], kAllCases[c][2])] >= 1}

\* The output of one iteration is a sequence of tagged pairs, one per
\* populated slot.
TaggedPairs(table_, out) ==
  LET n == Len(out) \div 2
      populated == [e \in table_ |-> Cardinality(PopulatedCases(e))]
  IN  /\ Len(out) = 2 * SumOver(populated, table_)
      /\ \A j \in 1..n :
           LET a == out[2 * j - 1]
               d == out[2 * j]
           IN  /\ a.profile_id = j
               /\ d.profile_id = j
               /\ SharedFields(a) = SharedFields(d)
               /\ a.count > 0
               /\ d.count = -a.count
               /\ \E e \in table_ : \E c \in PopulatedCases(e) : PairOf(a, d, e, c)
      /\ \A e \in table_ :
           \A c \in PopulatedCases(e) :
             Cardinality({j \in 1..n : PairOf(out[2 * j - 1], out[2 * j], e, c)}) = 1

\* C8 (deallocation tagging): in every order in which the table of an emitted
\* profile may be iterated, Iterate emits for every key and populated slot two
\* consecutive samples with the same profile_id, size fields, lifetime fields
\* and matching flags; the first has a positive count and the allocation
\* stack, the second the negated count and the deallocation stack; the j-th
\* pair has profile_id j, so no two pairs share one.
C8_DeallocationTagging ==
  \A p \in Profilers :
    profile[p] # NULL =>
      \A out \in Yields(tables[profile[p]]) :
        TaggedPairs(tables[profile[p]].table_, out)

\* C8 witness: an emitted profile with two keys, which iterates in two orders
\* and emits two pairs in each.
C8_Witness ==
  /\ profile[1] # NULL
  /\ Cardinality(tables[profile[1]].table_) = 2
  /\ Cardinality(Yields(tables[profile[1]])) = 2
  /\ \A out \in Yields(tables[profile[1]]) : Len(out) = 4

\* C9 (count positivity): for every populated slot of every key of every live
\* table, the count Iterate computes before the sign is applied, from the slot
\* count, the record weight raw weight / (requested_size + 1) that ReportMalloc
\* stored and the allocated size, is at least 1.
C9_CountPositivity ==
  \A t \in Profilers :
    tables[t].alive =>
      \A e \in tables[t].table_, i \in Cases :
        e.v.counts[i] >= 1 =>
          CountOf(BytesOf(e.v.counts[i], e.k.alloc.weight, e.k.alloc.allocated_size),
                  e.k.alloc.allocated_size) >= 1

\* C9 witness: an emitted profile with a populated slot of a key recorded with
\* the least sampler weight, 1, for a request of 32 bytes: record weight 1/33,
\* 32 * 1/33 < 1.
C9_Witness ==
  \E t \in Profilers :
    /\ profile[t] = t
    /\ tables[t].alive
    /\ \E e \in tables[t].table_, i \in Cases :
         /\ e.v.counts[i] = 1
         /\ e.k.alloc.weight = Nearest(Rat(1, 33))
         /\ BytesOf(1, e.k.alloc.weight, e.k.alloc.allocated_size) = 1

\* Scenario S1 has run: the one profiler was started, was delivered one malloc
\* (requested 32, allocated 32, sampler weight 1024, at 1000 ns, cpu 0, thread
\* 100) and then the free of that handle (at 5000 ns, cpu 0, thread 100), was
\* stopped, and its profile is held.
ScenarioS1 ==
  /\ profile[1] # NULL
  /\ Len(bcast) = 2
  /\ seen[1] = <<1, 2>>
  /\ bcast[1].kind = "malloc"
  /\ bcast[2].kind = "free"
  /\ pairlog[1] = <<1>>
  /\ \E e \in tables[profile[1]].table_ :
       /\ e.k.alloc.weight = Nearest(Rat(1024, 33))
       /\ e.k.alloc.requested_size = 32
       /\ e.k.alloc.allocated_size = 32
       /\ e.k.dealloc.stack[1] = 201
       /\ e.v.counts[ComputeIndex(CpuThreadMatchingStatus(TRUE, TRUE),
                                  RpcMatchingStatus(0, 0))] = 1
       /\ e.v.mean_life_times_ns[ComputeIndex(CpuThreadMatchingStatus(TRUE, TRUE),
                                              RpcMatchingStatus(0, 0))] = Double(4000)

\* The samples the profile of scenario S1 yields.
S1Samples == Iterate(CHOOSE o \in Orders(tables[profile[1]].table_) : TRUE)

\* Both samples of S1 are the two of one pair with both matching flags set,
\* the first with the allocation stack and the second with the deallocation
\* stack.
S1Shape(out) ==
  /\ Len(out) = 2
  /\ out[1].stack = <<101, 102>>
  /\ out[2].stack = <<201>>
  /\ out[1].lifetime_ns = 1000
  /\ \A j \in 1..2 :
       /\ out[j].allocator_deallocator_cpu_matched
       /\ out[j].allocator_deallocator_thread_matched

\* C10 as stated (scenario S1): the profile yields exactly two samples, first
\* count = +1, sum = 32, lifetime_ns = 1000 with the allocation stack, then
\* count = -1 with the deallocation stack, both with cpu_matched and
\* thread_matched true.
C10_AsStated ==
  ScenarioS1 =>
    /\ S1Shape(S1Samples)
    /\ S1Samples[1].count = 1
    /\ S1Samples[1].sum = 32
    /\ S1Samples[2].count = -1

\* C10 amended (scenario S1): the profile yields exactly two samples, first
\* count = +32, sum = 1024, lifetime_ns = 1000 with the allocation stack, then
\* count = -32 with the deallocation stack, both with cpu_matched and
\* thread_matched true: the sampler weight 1024 scales the one observation to
\* lround(1024 / 33 * 32) = 993 bytes, rounded up to 32 objects of 32 bytes.
C10_ScenarioS1 ==
  ScenarioS1 =>
    /\ S1Shape(S1Samples)
    /\ S1Samples[1].count = 32
    /\ S1Samples[1].sum = 1024
    /\ S1Samples[2].count = -32
    /\ S1Samples[2].sum = 1024

\* C10 witness: scenario S1 has run and its profile yields samples.
C10_Witness == ScenarioS1 /\ Len(S1Samples) = 2

\* The ids of the broadcasts made while p was registered, in order.
BroadcastsFor(p) ==
  SelectSeq([i \in 1..Len(bcast) |-> i], LAMBDA i : p \in bcast[i].reg)

\* The frees that complete a pair for p: p was registered at the free and at
\* the latest malloc of the same handle before it, with no free of the handle
\* in between.
ExpectedPairs(p) ==
  {i \in 1..Len(bcast) :
     /\ bcast[i].kind = "free"
     /\ p \in bcast[i].reg
     /\ \E m \in 1..(i - 1) :
          /\ bcast[m].kind = "malloc"
          /\ bcast[m].handle = bcast[i].handle
          /\ p \in bcast[m].reg
          /\ \A k \in (m + 1)..(i - 1) :
               ~(bcast[k].kind = "free" /\ bcast[k].handle = bcast[i].handle)}

\* The observations table t holds under the call site of handle h.
PairsIn(t, h) ==
  LET es == {e \in tables[t].table_ :
               e.k.alloc.stack[1] = TraceOfHandle(h).stack[1]}
      n == [e \in es |-> SumOver(e.v.counts, Cases)]
  IN  SumOver(n, es)

\* The table of p, while p holds it and once it is emitted.
TableOf(p) == IF reports_[p] # NULL THEN reports_[p] ELSE profile[p]

\* C3 (multi-profiler visibility): every broadcast is delivered, in order, to
\* exactly the profilers registered when it was made; and the table of a
\* profiler, attached or emitted, holds the pair of handle h if and only if
\* the profiler was registered at h's malloc and at h's free, once for each
\* such pair.
C3_MultiProfilerVisibility ==
  \A p \in Profilers :
    /\ seen[p] = BroadcastsFor(p)
    /\ TableOf(p) # NULL =>
         /\ tables[TableOf(p)].alive
         /\ \A h \in Handles :
              PairsIn(TableOf(p), h)
                = Cardinality({i \in ExpectedPairs(p) : bcast[i].handle = h})

\* C3 witness (scenario S5): P1 started, h=1 allocated, P2 started, h=2
\* allocated, both freed, both stopped; P1's profile holds both pairs and
\* P2's only the pair of h=2.  The walks reach P2 first: for h=2 it read
\* CPU 0 and a lifetime of 4000 ns, and P1, reading after it, CPU 3 at the
\* malloc and a lifetime of 4001 ns.
C3_Witness ==
  /\ Len(bcast) = 4
  /\ bcast[1] = [kind |-> "malloc", handle |-> 1, reg |-> {1}, reads |-> 1]
  /\ bcast[2] = [kind |-> "malloc", handle |-> 2, reg |-> {1, 2}, reads |-> 2]
  /\ bcast[3].kind = "free" /\ bcast[3].reg = {1, 2}
  /\ bcast[4].kind = "free" /\ bcast[4].reg = {1, 2}
  /\ profile[1] # NULL /\ profile[2] # NULL
  /\ PairsIn(profile[1], 1) = 1 /\ PairsIn(profile[1], 2) = 1
  /\ PairsIn(profile[2], 1) = 0 /\ PairsIn(profile[2], 2) = 1
  /\ {<<o.x, o.index>> : o \in BagToSet(lifelog[profile[2]])}
       = {<<4000, ComputeIndex(CpuThreadMatchingStatus(TRUE, TRUE),
                               RpcMatchingStatus(0, 0))>>}
  /\ {<<o.x, o.index>> : o \in BagToSet(lifelog[profile[1]])}
       = {<<4000, ComputeIndex(CpuThreadMatchingStatus(TRUE, TRUE),
                               RpcMatchingStatus(0, 0))>>,
          <<4001, ComputeIndex(CpuThreadMatchingStatus(FALSE, TRUE),
                               RpcMatchingStatus(0, 0))>>}

\* C4 (profile outlives profiler): an emitted profile owns a live table, and
\* as long as it is held, iterating it yields what the table Stop returned
\* yields, with the same duration; no step other than dropping the profile changes its table:
\* not a broadcast, not the destruction of the source profiler, not the start
\* or stop of another profiler.
C4_ProfileOutlivesProfiler ==
  /\ [](\A p \in Profilers :
         profile[p] # NULL =>
           /\ tables[profile[p]].alive
           /\ \/ tables[profile[p]].table_ = emitted[p].table_
              \/ Yields(tables[profile[p]]) = Yields(emitted[p])
           /\ Duration(tables[profile[p]]) = Duration(emitted[p]))
  /\ [][\A p \in Profilers :
          (profile[p] # NULL /\ profile'[p] # NULL) =>
            /\ profile'[p] = profile[p]
            /\ tables'[profile[p]] = tables[profile[p]]]_vars

\* C4 witness (scenario S6): profile X of the first profiler holds a pair, a
\* second profiler was started after X was emitted, was delivered broadcasts
\* X's profiler was not, and has ended; X is still held.
C4_Witness ==
  /\ profile[1] # NULL
  /\ TotalCount(tables[profile[1]].table_) >= 1
  /\ sample[2] # "unborn"
  /\ profiler_[2] = NULL
  /\ FineUnused(2)
  /\ \E i \in 1..Len(bcast) : bcast[i].reg = {2}

\* A call on handle p in progress has the step called name ahead of it.
Pending(p, name) ==
  \E t \in Threads : \E i \in 1..Len(todo[t]) :
    todo[t][i].op = name /\ todo[t][i].p = p

\* The arena_ref_ of the profiler of handle p exists: its constructor has
\* built it and has not returned, or the handle holds the profiler and no
\* call is about to return from its destruction, or its destructor has not
\* destroyed the arena_ref_ yet (in DeallocationSample::Stop the handle holds
\* nullptr by then).
ProfilerAlive(p) ==
  \/ Pending(p, "ctor_return") /\ ~Pending(p, "ref_ctor_profiler")
  \/ profiler_[p] # NULL /\ ~Pending(p, "return")
  \/ Pending(p, "ref_dtor_profiler")

\* The arena_ref_ of table t exists: its constructor has built it and not
\* the rest of the table, or the table is live, or its destructor has freed
\* table_ and has not destroyed the arena_ref_.
TableRefAlive(t) ==
  \/ Pending(t, "table_ctor") /\ ~Pending(t, "ref_ctor_table")
  \/ tables[t].alive
  \/ Pending(t, "ref_dtor_table")
  \/ Pending(t, "ref_dtor_profile")

\* The live holders of an arena reference: each profiler object and each
\* table, attached or emitted.
Holders ==
  Cardinality({p \in Profilers : ProfilerAlive(p)})
    + Cardinality({t \in Profilers : TableRefAlive(t)})

\* C5 (arena lifetime): in every state the arena pointer is non-null exactly
\* when the refcount is positive, the refcount is the number of live profiler
\* objects and live tables, and no check has failed; the arena is created
\* only from refcount 0 with a null pointer and is deleted only when no holder
\* is left.
C5_ArenaLifetime ==
  /\ [](/\ ~crashed
        /\ (arena_ # NULL) <=> (refcount_ > 0)
        /\ refcount_ = Holders)
  /\ [][/\ (arena_ = NULL /\ arena_' # NULL) => (refcount_ = 0 /\ refcount_' >= 1)
        /\ (arena_ # NULL /\ arena_' = NULL) => (Holders' = 0 /\ refcount_' = 0)]_vars

\* C5 witness: both handles were started and have ended, a profile that held
\* pairs was dropped, and the arena is gone with refcount 0.
C5_Witness ==
  /\ \A p \in Profilers : sample[p] # "unborn" /\ profiler_[p] = NULL
  /\ \A p \in Profilers : profile[p] = NULL
  /\ \E p \in Profilers : stop_result[p] = "table" /\ pairlog[p] # << >>
  /\ arena_ = NULL
  /\ refcount_ = 0

RECURSIVE ListFrom(_, _)
\* The profilers reached from c along next_, at most n of them.
ListFrom(c, n) ==
  IF c = NULL \/ n = 0 THEN << >> ELSE <<c>> \o ListFrom(next_[c], n - 1)

\* The registry as a walk from first_ finds it.
Linked == ListFrom(first_, Cardinality(Profilers) + 1)

\* Stop, in DeallocationSample::Stop or in the destructor, has run Remove for
\* p and has not returned.
Leaving(p) == Pending(p, "return") /\ ~Pending(p, "remove")

\* The profiler of handle p is to be in the list: Add has linked it and its
\* constructor has not returned, or the handle holds it and no Stop has run
\* Remove.
Listed(p) ==
  \/ Pending(p, "ctor_return") /\ ~Pending(p, "add")
  \/ profiler_[p] # NULL /\ ~Leaving(p)

\* Handle p was started and has ended: it holds no profiler, no Profile of
\* it is held and no call on it is in progress.
Ended(p) ==
  /\ sample[p] # "unborn"
  /\ profiler_[p] = NULL
  /\ profile[p] = NULL
  /\ FineUnused(p)

\* What the profiler of handle p has left behind: nothing.
NoResidue(p) ==
  /\ p \notin registered
  /\ \A i \in 1..Len(Linked) : Linked[i] # p
  /\ tables[p] = NoTable
  /\ allocs_[p] = EmptyMap
  /\ allocs_cap[p] = 0
  /\ reports_[p] = NULL
  /\ ~ProfilerAlive(p)
  /\ ~TableRefAlive(p)

\* C6 (Stop is idempotent, unlinking happens once): a profiler is in the
\* registry from the Add of its constructor until the Remove step of its
\* Stop, once; it leaves the registry only in that step and never
\* returns; the first Stop returns a profile that owns the table the
\* profiler filled; a later Stop returns an empty profile and changes neither
\* registry nor refcount; and a handle that has ended leaves nothing behind,
\* in the registry or in the refcount, whether it was destroyed unstopped or
\* stopped and its profile dropped.
C6_StopIdempotent ==
  /\ [](/\ ~crashed
        /\ \A p \in Profilers :
             /\ Cardinality({i \in 1..Len(Linked) : Linked[i] = p})
                  = IF Listed(p) THEN 1 ELSE 0
             /\ (p \in registered) <=> Listed(p)
             /\ Ended(p) => NoResidue(p)
        /\ (\A p \in Profilers :
              FineUnused(p) /\ (sample[p] = "unborn" \/ Ended(p))) =>
             (refcount_ = 0 /\ arena_ = NULL))
  /\ [][\A p \in Profilers :
          /\ (p \in registered /\ p \notin registered') =>
               (profiler_[p] # NULL /\ ~Leaving(p) /\ Leaving(p)')
          /\ (sample[p] # "unborn" /\ p \notin registered) => p \notin registered'
          /\ stop_result'[p] # stop_result[p] =>
               IF Leaving(p)
               THEN /\ stop_result[p] = "none"
                    /\ stop_result'[p] = "table"
                    /\ profiler_'[p] = NULL
                    /\ profile'[p] # NULL
                    /\ tables'[profile'[p]].alive
                    /\ tables'[profile'[p]] = tables[profile'[p]]
                    /\ TotalCount(tables'[profile'[p]].table_) = Len(pairlog[p])
                    /\ ~ProfilerAlive(p)
                    /\ refcount_' = refcount_
               ELSE /\ profiler_[p] = NULL
                    /\ stop_result'[p] = "empty"
                    /\ first_' = first_
                    /\ next_' = next_
                    /\ registered' = registered
                    /\ refcount_' = refcount_
                    /\ arena_' = arena_
                    /\ tables' = tables]_vars

\* C6 witness: the first handle was stopped twice while the second profiler
\* was registered, the second call returned an empty profile, and the second
\* handle was destroyed without Stop after it had been delivered a broadcast.
C6_Witness ==
  /\ stop_result[1] = "empty"
  /\ profile[1] # NULL
  /\ sample[2] = "destroyed"
  /\ seen[2] # << >>
  /\ first_ = NULL

\* Broadcast i has been delivered to p.
Saw(p, i) == \E k \in 1..Len(seen[p]) : seen[p][k] = i

\* The place of broadcast i in what p has been delivered.
PlaceIn(p, i) == CHOOSE k \in 1..Len(seen[p]) : seen[p][k] = i

\* Thread t is inside a broadcast: between taking profilers_lock_ in
\* ReportMalloc / ReportFree and releasing it.
Walking(t) == todo[t] # << >> /\ ev[t].kind \in {"malloc", "free"}

\* A thread is inside broadcast i.
InProgress(i) == \E t \in Threads : Walking(t) /\ ev[t].id = i

\* C7 (global event order): broadcasts exclude each other and Add and Remove:
\* at most one thread is inside a broadcast and it holds the lock; the
\* registry does not change during a broadcast; every profiler is delivered
\* broadcasts in the order they were made, so any two profilers that observe
\* the same two broadcasts observe them in the same order; a broadcast
\* reaches only the profilers registered when it was made, and once it has
\* returned it has reached all of them.
C7_GlobalEventOrder ==
  /\ Cardinality({t \in Threads : Walking(t)}) <= 1
  /\ \A t \in Threads :
       Walking(t) =>
         /\ profilers_lock_ = t
         /\ registered = bcast[ev[t].id].reg
  /\ \A p \in Profilers :
       \A j, k \in 1..Len(seen[p]) : j < k => seen[p][j] < seen[p][k]
  /\ \A p, q \in Profilers :
       \A a, b \in 1..Len(bcast) :
         (Saw(p, a) /\ Saw(p, b) /\ Saw(q, a) /\ Saw(q, b)) =>
           ((PlaceIn(p, a) < PlaceIn(p, b)) <=> (PlaceIn(q, a) < PlaceIn(q, b)))
  /\ \A i \in 1..Len(bcast) :
       \A p \in Profilers :
         /\ Saw(p, i) => p \in bcast[i].reg
         /\ (~InProgress(i) /\ p \in bcast[i].reg) => Saw(p, i)

\* C7 witness: the constructors of the two handles ran side by side and the
\* second profiler was added before the first, so the list is 1, 2; both
\* have been delivered the first broadcast; thread 1 is inside the second,
\* has delivered it to profiler 1 and not yet to profiler 2; thread 2 has
\* begun to stop a profiler and waits for the lock.
C7_Witness ==
  /\ Walking(1)
  /\ first_ = 1
  /\ cur[1] = 2
  /\ seen[1] = <<1, 2>>
  /\ seen[2] = <<1>>
  /\ At(2, "list_lock")
  /\ ev[2].kind = "stop"

\* The slot that holds the pairs with the given matching flags.
FlagSlot(cpu_matched, thread_matched) ==
  ComputeIndex(CpuThreadMatchingStatus(cpu_matched, thread_matched),
               RpcMatchingStatus(0, 0))

\* The pairs of an iteration's output that carry the stacks of entry u and the
\* given matching flags.
PairsWith(out, u, cpu_matched, thread_matched) ==
  {j \in 1..(Len(out) \div 2) :
     /\ out[2 * j - 1].allocator_deallocator_cpu_matched = cpu_matched
     /\ out[2 * j].allocator_deallocator_cpu_matched = cpu_matched
     /\ out[2 * j - 1].allocator_deallocator_thread_matched = thread_matched
     /\ out[2 * j].allocator_deallocator_thread_matched = thread_matched
     /\ out[2 * j - 1].requested_size = u.k.alloc.requested_size
     /\ out[2 * j - 1].requested_alignment = u.k.alloc.requested_alignment
     /\ out[2 * j - 1].stack = CopyStack(u.k.alloc.stack, u.k.alloc.depth)
     /\ out[2 * j].stack = CopyStack(u.k.dealloc.stack, u.k.dealloc.depth)}

\* An emitted profile yields, for each key and each combination of flags, one
\* pair if the slot of those flags holds observations and none otherwise, and
\* the pair's count comes from that slot alone.
FlagsKeptApart ==
  \A p \in Profilers :
    profile[p] # NULL =>
      \A out \in Yields(tables[profile[p]]) :
        \A u \in tables[profile[p]].table_ :
          \A c, t \in BOOLEAN :
            LET n == u.v.counts[FlagSlot(c, t)]
                js == PairsWith(out, u, c, t)
            IN  IF n = 0 THEN js = {}
                ELSE /\ Cardinality(js) = 1
                     /\ \A j \in js :
                          out[2 * j - 1].count =
                            CountOf(BytesOf(n, u.k.alloc.weight, u.k.alloc.allocated_size),
                                    u.k.alloc.allocated_size)

\* The step ReportFree(e) pairs the in-flight record of e.handle in profiler p:
\* the observation goes to the slot of the flags (CPU recorded at ReportMalloc
\* = CPU of the free, thread recorded at ReportMalloc = thread of the free).
PairedUnderItsFlags(p, e) ==
  LET a == allocs_[p][e.handle]
      i == FlagSlot(a.cpu_id = e.cpu, a.thread_id = e.tid)
      key == Key(a, FreeRecord(a, e))
      olds == {x \in tables[reports_[p]].table_ : KeyEq(x.k, key)}
      news == {x \in tables'[reports_[p]].table_ : KeyEq(x.k, key)}
  IN  /\ Cardinality(news) = 1
      /\ \A u \in news :
           /\ u.v.counts[i] = (IF olds = {} THEN 0
                               ELSE (CHOOSE x \in olds : TRUE).v.counts[i]) + 1
           /\ \A j \in Cases \ {i} :
                u.v.counts[j] = IF olds = {} THEN 0
                                ELSE (CHOOSE x \in olds : TRUE).v.counts[j]

\* C11 (matching status): a pair is accumulated in the slot of cpu_matched =
\* (CPU id recorded at ReportMalloc = CPU id at ReportFree) and thread_matched
\* = (thread id at ReportMalloc = thread id at ReportFree); the samples emitted
\* for a slot carry the flags of that slot, and observations of one key under
\* different flags are emitted as different pairs, each counted from its own
\* slot.
C11_MatchingStatus ==
  /\ []FlagsKeptApart
  /\ [][\A e \in FlagFreeEvents :
          \A p \in Profilers :
            (/\ p \in registered
             /\ e.handle \in DOMAIN allocs_[p]
             /\ Len(bcast') = Len(bcast) + 1
             /\ bcast'[Len(bcast')].kind = "free"
             /\ bcast'[Len(bcast')].handle = e.handle
             /\ ReportFree(e))
              => PairedUnderItsFlags(p, e)]_vars

\* C11 witness (scenarios S1 and S2 on one key): an emitted profile whose one
\* key holds an observation freed on the allocating CPU and thread and one
\* freed on another CPU by the same thread; iterating it yields two pairs.
C11_Witness ==
  /\ profile[1] # NULL
  /\ \E u \in tables[profile[1]].table_ :
       /\ u.v.counts[FlagSlot(TRUE, TRUE)] = 1
       /\ u.v.counts[FlagSlot(FALSE, TRUE)] = 1
       /\ \A out \in Yields(tables[profile[1]]) :
            /\ Len(out) = 4
            /\ Cardinality(PairsWith(out, u, FALSE, TRUE)) = 1

\* The tables that exist: those of running profilers and of emitted profiles.
LiveTables == {t \in Profilers : tables[t].alive}

\* The distinct lifetimes AddTrace was given for entry u and slot i of table t.
LifetimesOf(t, u, i) ==
  {o.x : o \in {y \in BagToSet(lifelog[t]) : KeyEq(y.k, u.k) /\ y.index = i}}

\* The number of AddTrace calls for entry u and slot i of table t that had
\* lifetime x.
TimesObserved(t, u, i, x) ==
  LET os == {y \in BagToSet(lifelog[t]) : KeyEq(y.k, u.k) /\ y.index = i /\ y.x = x}
      n == [o \in os |-> CopiesIn(o, lifelog[t])]
  IN  SumOver(n, os)

\* Slot i of entry u of table t was given N >= 2 lifetimes, all equal to L.
ConstantSlot(t, u, i, L) ==
  /\ LifetimesOf(t, u, i) = {L}
  /\ TimesObserved(t, u, i, L) >= 2

\* C12 as stated (statistical identity on constants, every lifetime): a slot
\* that was given N >= 2 lifetimes all equal to L has count = N, mean = L,
\* min = L, max = L and derived stddev = 0.
C12_AsStated ==
  \A t \in LiveTables : \A u \in tables[t].table_ : \A i \in Cases :
    \A L \in LifetimesOf(t, u, i) :
      ConstantSlot(t, u, i, L) =>
        /\ u.v.counts[i] = TimesObserved(t, u, i, L)
        /\ u.v.mean_life_times_ns[i] = Double(L)
        /\ u.v.min_life_times_ns[i] = Double(L)
        /\ u.v.max_life_times_ns[i] = Double(L)
        /\ StddevOf(u.v, i) = Zero

\* C12 (statistical identity on constants): a slot that was given N >= 2
\* lifetimes all equal to L has count = N, mean = L, min = L and derived
\* stddev = 0; its max is L when L >= 0 and stays at its initial 0 when the
\* free's clock reading lies before the allocation time (L < 0).
C12_ConstantLifetimes ==
  \A t \in LiveTables : \A u \in tables[t].table_ : \A i \in Cases :
    \A L \in LifetimesOf(t, u, i) :
      ConstantSlot(t, u, i, L) =>
        /\ u.v.counts[i] = TimesObserved(t, u, i, L)
        /\ u.v.mean_life_times_ns[i] = Double(L)
        /\ u.v.min_life_times_ns[i] = Double(L)
        /\ u.v.max_life_times_ns[i] = Double(IF L >= 0 THEN L ELSE 0)
        /\ StddevOf(u.v, i) = Zero

\* C12 witness: a slot that holds three pairs of lifetime 4000 ns each.
C12_Witness ==
  \E t \in LiveTables : \E u \in tables[t].table_ : \E i \in Cases :
    /\ ConstantSlot(t, u, i, 4000)
    /\ u.v.counts[i] = 3
    /\ u.v.max_life_times_ns[i] = Double(4000)

\* C13 (slot invariant): in every table, a slot with count >= 1 has
\* min <= mean <= max and a variance accumulator >= 0, as the doubles the
\* slot holds compare; a slot with count = 0 holds the values Value() gave it:
\* mean 0, accumulator 0, min DBL_MAX, max 0.
C13_SlotInvariant ==
  \A t \in LiveTables : \A u \in tables[t].table_ : \A i \in Cases :
    IF u.v.counts[i] >= 1
    THEN /\ AtMost(u.v.min_life_times_ns[i], u.v.mean_life_times_ns[i])
         /\ AtMost(u.v.mean_life_times_ns[i], u.v.max_life_times_ns[i])
         /\ AtMost(Zero, u.v.variance_life_times_ns[i])
    ELSE Slot(u.v, i) = <<0, Zero, Zero, DBL_MAX, Zero>>

\* C13 witness: a slot that was given the lifetimes 0, 0 and 4000 ns, whose
\* mean is 4000 / 3 rounded to a double, with min < mean < max and a positive
\* accumulator, beside a slot never touched.
C13_Witness ==
  \E t \in LiveTables : \E u \in tables[t].table_ : \E i, j \in Cases :
    /\ u.v.counts[i] = 3
    /\ u.v.mean_life_times_ns[i] = Nearest(Rat(4000, 3))
    /\ u.v.min_life_times_ns[i] = Zero
    /\ u.v.max_life_times_ns[i] = Double(4000)
    /\ LessThan(u.v.min_life_times_ns[i], u.v.mean_life_times_ns[i])
    /\ LessThan(u.v.mean_life_times_ns[i], u.v.max_life_times_ns[i])
    /\ LessThan(Zero, u.v.variance_life_times_ns[i])
    /\ u.v.counts[j] = 0

\* The sum of the rationals f[x] for x in D.
RECURSIVE RSumOver(_, _)
RSumOver(f, D) ==
  IF D = {} THEN FromInt(0)
  ELSE LET x == CHOOSE y \in D : TRUE IN RAdd(f[x], RSumOver(f, D \ {x}))

\* The number of lifetimes slot i of entry u of table t was given.
ObservedCount(t, u, i) ==
  LET xs == LifetimesOf(t, u, i)
      n == [x \in xs |-> TimesObserved(t, u, i, x)]
  IN  SumOver(n, xs)

\* The arithmetic mean of the lifetimes slot i of entry u was given.
ObservedMean(t, u, i) ==
  LET xs == LifetimesOf(t, u, i)
      w == [x \in xs |-> x * TimesObserved(t, u, i, x)]
  IN  RDiv(FromInt(SumOver(w, xs)), FromInt(ObservedCount(t, u, i)))

\* The sum of the squared deviations of those lifetimes from their mean.
SquaredDeviations(t, u, i) ==
  LET xs == LifetimesOf(t, u, i)
      m == ObservedMean(t, u, i)
      d == [x \in xs |->
              RMul(FromInt(TimesObserved(t, u, i, x)),
                   RMul(RSub(FromInt(x), m), RSub(FromInt(x), m)))]
  IN  RSumOver(d, xs)

\* C20 as stated (variance accumulator meaning): the accumulator of a slot
\* that was given lifetimes x1..xn equals the sum of the squared deviations of
\* x1..xn from their mean, so that Iterate's sqrt(accumulator / n) is their
\* population standard deviation.
C20_AsStated ==
  \A t \in LiveTables : \A u \in tables[t].table_ : \A i \in Cases :
    u.v.counts[i] >= 1 =>
      /\ u.v.counts[i] = ObservedCount(t, u, i)
      /\ u.v.variance_life_times_ns[i] = Nearest(SquaredDeviations(t, u, i))
      /\ StddevOf(u.v, i) =
           sqrt(Nearest(RDiv(SquaredDeviations(t, u, i),
                             FromInt(ObservedCount(t, u, i)))))

\* C20, what the code accumulates for up to two lifetimes: the mean is the mean of
\* the lifetimes, and the accumulator is 0 after one lifetime and half the sum
\* of squared deviations after two.
C20_HalfOfSquaredDeviations ==
  \A t \in LiveTables : \A u \in tables[t].table_ : \A i \in Cases :
    u.v.counts[i] \in 1..2 =>
      /\ u.v.counts[i] = ObservedCount(t, u, i)
      /\ u.v.mean_life_times_ns[i] = Nearest(ObservedMean(t, u, i))
      /\ u.v.variance_life_times_ns[i] =
           Nearest(RDiv(SquaredDeviations(t, u, i), FromInt(u.v.counts[i])))

\* C20 witness: a slot that was given lifetimes 0 and 4000 ns: the squared
\* deviations from the mean 2000 sum to 8000000, the accumulator holds
\* 4000000, and the derived deviation is sqrt(2000000), about 1414.2, where
\* the population standard deviation is sqrt(4000000) = 2000.
C20_Witness ==
  \E t \in LiveTables : \E u \in tables[t].table_ : \E i \in Cases :
    /\ LifetimesOf(t, u, i) = {0, 4000}
    /\ u.v.counts[i] = 2
    /\ SquaredDeviations(t, u, i) = FromInt(8000000)
    /\ u.v.variance_life_times_ns[i] = Double(4000000)
    /\ StddevOf(u.v, i) = sqrt(Double(2000000))
    /\ StddevOf(u.v, i) # sqrt(Double(4000000))
    /\ LifetimeToBucketedLifetimeNanoseconds(StddevOf(u.v, i)) = 1000

\* The in-flight entry of handle h in profiler p holds what ReportMalloc was
\* given by e: sizes, the frames of the stack, allocation time, CPU, thread and
\* weight.
HoldsRecordOf(p, h, e) ==
  LET a == allocs_'[p][h]
      st == e.stack_trace
  IN  /\ a.requested_size = st.requested_size
      /\ a.requested_alignment = st.requested_alignment
      /\ a.allocated_size = st.allocated_size
      /\ a.depth = st.depth
      /\ CopyStack(a.stack, a.depth) = SubSeq(st.stack, 1, st.depth)
      /\ a.creation_time = st.allocation_time
      /\ a.cpu_id = e.cpu
      /\ a.thread_id = e.tid
      /\ a.weight = Nearest(Rat(st.weight, st.requested_size + 1))

\* C16 (in-flight map invariant): for every registered profiler the keys of
\* allocs_ are exactly the handles it was delivered a ReportMalloc for and no
\* ReportFree since (the map holds one record per key); and a ReportMalloc
\* for a handle already in flight leaves the key set as it is, replaces the
\* record by the newer one and leaves the table alone.
C16_InFlightMap ==
  /\ [](\A p \in registered :
          DOMAIN allocs_[p] = {h \in Handles : ObservedInFlight(p, h)})
  /\ [][\A e \in RepeatMallocEvents : \A p \in registered :
          LET h == e.stack_trace.sampled_alloc_handle
          IN  (h \in DOMAIN allocs_[p] /\ bcast' # bcast /\ ReportMalloc(e)) =>
                /\ DOMAIN allocs_'[p] = DOMAIN allocs_[p]
                /\ \A g \in DOMAIN allocs_[p] \ {h} : allocs_'[p][g] = allocs_[p][g]
                /\ HoldsRecordOf(p, h, e)
                /\ tables' = tables
                /\ pairlog' = pairlog]_vars

\* C16 witness: handle 1, allocated on CPU 0 by thread 100 from one call site
\* and reported again from another call site on CPU 3 by thread 101 while in
\* flight; the map holds one entry for it, the newer record, beside handle 2.
C16_Witness ==
  /\ 1 \in registered
  /\ DOMAIN allocs_[1] = {1, 2}
  /\ Len(seen[1]) = 3
  /\ bcast[seen[1][1]].handle = 1
  /\ bcast[seen[1][3]].handle = 1
  /\ allocs_[1][1].cpu_id = 3
  /\ allocs_[1][1].thread_id = 101
  /\ allocs_[1][1].depth = 1
  /\ allocs_[1][1].stack = <<103, 102>>
  /\ tables[reports_[1]].table_ = {}

\* The profilers that have been started (Add has run) and neither stopped nor
\* destroyed (no Stop of theirs has run Remove).
Running ==
  {p \in Profilers :
     /\ \/ sample[p] = "live"
        \/ Pending(p, "ctor_return") /\ ~Pending(p, "add")
     /\ stop_result[p] = "none"
     /\ ~Leaving(p)}

\* C17 (registry integrity): the walk from first_ ends in nullptr after
\* visiting exactly the profilers started and neither stopped nor destroyed,
\* each once, where a profiler counts as started from its Add and as stopped
\* or destroyed from its Remove; a profiler that is added becomes the head,
\* with the former head behind it and the rest of the list as it was; and no
\* CHECK_CONDITION fails.
C17_RegistryIntegrity ==
  /\ [](/\ ~crashed
        /\ Len(Linked) = Cardinality(Running)
        /\ {Linked[i] : i \in 1..Len(Linked)} = Running
        /\ registered = Running)
  /\ [][\A p \in Profilers :
          (p \notin registered /\ p \in registered') =>
            /\ first_' = p
            /\ Linked' = <<p>> \o Linked]_vars

\* C17 witness: both profilers were started, 2 after 1, so the list was
\* <<2, 1>>; then 1, at the tail, was stopped and 2 is still in the list.
C17_Witness ==
  /\ Linked = <<2>>
  /\ stop_result[1] = "table"
  /\ stopwatch[2].start # 0
  /\ seen[2] # << >>
  /\ sample[2] = "live"

\* C19 as stated (stack truncation): whatever depth the trace handed to
\* ReportMalloc reports, the in-flight record stores a depth of at most
\* kMaxStackDepth that equals the number of frames copied, and every record
\* in the in-flight map and in a table's keys has its depth within the frames
\* its array holds.
C19_AsStated ==
  /\ [](/\ \A p \in Profilers : \A h \in DOMAIN allocs_[p] :
             /\ allocs_[p][h].depth <= kMaxStackDepth
             /\ allocs_[p][h].depth <= Len(allocs_[p][h].stack)
        /\ \A t \in LiveTables : \A u \in tables[t].table_ :
             u.k.alloc.depth <= kMaxStackDepth /\ u.k.dealloc.depth <= kMaxStackDepth)
  /\ [][\A e \in DeepMallocEvents : \A p \in registered :
          ReportMalloc(e) =>
            allocs_'[p][e.stack_trace.sampled_alloc_handle].depth
              = Min(e.stack_trace.depth, kMaxStackDepth)]_vars

\* C19, what the code does: the record takes the depth the trace reports and
\* the first min(depth, kMaxStackDepth) frames of the trace; the two agree
\* when the trace reports at most kMaxStackDepth frames.
C19_DepthStoredAsReported ==
  [][\A e \in DeepMallocEvents : \A p \in registered :
       ReportMalloc(e) =>
         LET a == allocs_'[p][e.stack_trace.sampled_alloc_handle]
             n == Min(e.stack_trace.depth, kMaxStackDepth)
         IN  /\ a.depth = e.stack_trace.depth
             /\ SubSeq(a.stack, 1, n) = SubSeq(e.stack_trace.stack, 1, n)
             /\ e.stack_trace.depth <= kMaxStackDepth =>
                  a.depth = n /\ a.depth <= Len(a.stack)]_vars

\* C19 witness: a table whose key was built from a record of depth 65: its
\* 65th frame is what the read behind the 64-entry array found.
C19_Witness ==
  \E t \in LiveTables : \E u \in tables[t].table_ :
    /\ u.k.alloc.depth = kMaxStackDepth + 1
    /\ SubSeq(u.k.alloc.stack, 1, kMaxStackDepth) = Frames(kMaxStackDepth)
    /\ u.k.alloc.stack[kMaxStackDepth + 1] \in BeyondFrames

\* Thread t takes this step.
Acts(t) == todo'[t] # todo[t]

\* Thread t is inside cur->ReportMalloc / cur->ReportFree of profiler p.
Visiting(t, p) == At(t, "visit") /\ todo[t][1].p = p

\* This step of thread t accesses the in-flight map of profiler p or the
\* table p holds: it ends a visit of p, or it changes one of the two.
Touches(t, p) ==
  /\ Acts(t)
  /\ \/ Visiting(t, p)
     \/ allocs_'[p] # allocs_[p]
     \/ allocs_cap'[p] # allocs_cap[p]
     \/ reports_[p] # NULL /\ tables'[reports_[p]] # tables[reports_[p]]

\* The entries of p's map and of p's table are as they were.
ContentsKept(p) ==
  /\ allocs_'[p] = allocs_[p]
  /\ reports_[p] # NULL => tables'[reports_[p]].table_ = tables[reports_[p]].table_

\* C14 as stated (registry-lock exclusivity): every step that accesses a
\* profiler's in-flight map or its table, those of Stop and of the
\* destructor included, is taken by the thread that holds profilers_lock_;
\* and while a thread is inside a visit of a profiler no other thread
\* accesses that profiler's map or table.
C14_AsStated ==
  [][\A p \in Profilers : \A t \in Threads :
       Touches(t, p) =>
         /\ profilers_lock_ = t
         /\ \A t2 \in Threads \ {t} : ~Visiting(t2, p)]_vars

\* C14 (registry-lock exclusivity): a broadcast accesses a profiler's map and
\* table holding profilers_lock_; the only access to a listed profiler made
\* without the lock is SetStopTime, which writes stop_time_ and leaves the
\* entries of map and table alone; every other access (by Stop after Remove
\* and by the destructor) is made without the lock once the profiler has left
\* the list, when no walk stands at it; so the entries of a profiler's map
\* and table never change under a thread that is inside a visit of it.
C14_Exclusivity ==
  [][\A p \in Profilers : \A t \in Threads :
       /\ Touches(t, p) =>
            \/ Visiting(t, p) /\ profilers_lock_ = t
            \/ /\ profilers_lock_ # t
               /\ p \in registered
               /\ ContentsKept(p)
               /\ tables'[reports_[p]] =
                    [tables[reports_[p]] EXCEPT !.stop_time_ = tables'[reports_[p]].stop_time_]
            \/ /\ profilers_lock_ # t
               /\ p \notin registered
               /\ \A i \in 1..Len(Linked) : Linked[i] # p
               /\ \A t2 \in Threads \ {t} :
                    todo[t2] # << >> /\ todo[t2][1].op \in {"walk", "visit"}
                      => cur[t2] # p
       /\ \A t2 \in Threads \ {t} : (Visiting(t2, p) /\ Acts(t)) => ContentsKept(p)]_vars

\* C14 witness: thread 1 holds profilers_lock_ and is inside ReportFree of
\* profiler 1, which holds the freed handle, while thread 2, in Stop of the
\* same profiler, has written the table's stop time and waits for the lock.
\* Profiler 1 stands before profiler 2 in the list: its constructor was
\* entered first and called Add last.
C14_Witness ==
  /\ profilers_lock_ = 1
  /\ Visiting(1, 1)
  /\ next_[1] = 2
  /\ ev[1].kind = "free"
  /\ ev[1].handle \in DOMAIN allocs_[1]
  /\ At(2, "list_lock")
  /\ ev[2].kind = "stop"
  /\ ev[2].p = 1
  /\ tables[reports_[1]].stop_time_ = 5000

\* This step of thread t enters a visit in which Allocate reads arena_.
AllocateReads(t) ==
  Acts(t) /\ At(t, "walk") /\ cur[t] # NULL /\ Allocates(cur[t], ev[t])

\* This step of thread t reads or writes refcount_ or arena_ inside a
\* constructor or destructor of LowLevelArenaReference.
ReferenceStep(t) ==
  /\ Acts(t)
  /\ todo[t] # << >>
  /\ todo[t][1].op \in {"ref_ctor_profiler", "ref_ctor_table", "ref_dtor_table",
                        "ref_dtor_profiler", "ref_dtor_profile"}

\* C15 as stated (arena-lock exclusivity): every step that reads or writes
\* refcount_ or arena_, the read of arena_ by Allocate included, is taken by
\* the thread that holds arena_lock_; and arena_ is written only when no
\* reference is held before or after the write.
C15_AsStated ==
  [][/\ \A t \in Threads :
          (ReferenceStep(t) \/ AllocateReads(t)
             \/ (Acts(t) /\ (refcount_' # refcount_ \/ arena_' # arena_)))
            => arena_lock_ = t
     /\ arena_' # arena_ => (refcount_ = 0 \/ refcount_' = 0)]_vars

\* C15, what the code guarantees: refcount_ and arena_ are read and written
\* by the constructor and destructor of LowLevelArenaReference under
\* arena_lock_ and changed by no other step; Allocate, called whenever a map
\* or a table grows, reads arena_ on a thread that does not hold arena_lock_,
\* at a time when a reference is held and arena_ is set; arena_ is written
\* only when the count is 0 before or after the write; and the pointer
\* Allocate read stays the arena_ for as long as the thread is in the visit.
C15_ArenaLock ==
  /\ [](\A t \in Threads :
          (At(t, "visit") /\ todo[t][1].arg # NULL) =>
            (arena_ = todo[t][1].arg /\ refcount_ >= 1))
  /\ [][/\ \A t \in Threads :
             /\ ReferenceStep(t) => arena_lock_ = t
             /\ (Acts(t) /\ (refcount_' # refcount_ \/ arena_' # arena_))
                  => (ReferenceStep(t) /\ arena_lock_ = t)
             /\ AllocateReads(t) =>
                  (arena_lock_ # t /\ refcount_ >= 1 /\ arena_ # NULL)
        /\ arena_' # arena_ => (refcount_ = 0 \/ refcount_' = 0)]_vars

\* C15 witness: thread 1, inside ReportMalloc of profiler 1, whose map holds
\* one handle and grows for the second, has read arena_ in Allocate while
\* thread 2 holds arena_lock_ in the constructor of another profiler's arena
\* reference.
C15_Witness ==
  /\ Visiting(1, 1)
  /\ todo[1][1].arg = ARENA
  /\ ev[1].kind = "malloc"
  /\ allocs_cap[1] = 1
  /\ Cardinality(DOMAIN allocs_[1]) = 1
  /\ arena_lock_ = 2
  /\ At(2, "ref_ctor_profiler")
  /\ refcount_ = 2

\* Thread t is inside Stop of profiler p: it has written the stop time and
\* has not returned.
StopInProgress(t, p) ==
  todo[t] # << >> /\ ev[t].kind = "stop" /\ ev[t].p = p

\* C18 (Stop always completes): under fair scheduling every call in progress,
\* a Stop among them, returns, however many broadcasts, constructors and
\* other Stops the other threads run meanwhile, so no interleaving
\* deadlocks; when a Stop returns, the profiler is out of the registry and
\* the profile is handed over; and no thread holds or waits for one of the
\* two locks while it holds the other.
C18_StopCompletes ==
  /\ \A t \in Threads : (todo[t] # << >>) ~> (todo[t] = << >>)
  /\ [][\A t \in Threads : \A p \in Profilers :
          (StopInProgress(t, p) /\ todo'[t] = << >>) =>
            (p \notin registered' /\ stop_result'[p] = "table")]_vars
  /\ [](\A t \in Threads :
          /\ ~(profilers_lock_ = t /\ arena_lock_ = t)
          /\ At(t, "list_lock") => arena_lock_ # t
          /\ At(t, "arena_lock") => profilers_lock_ # t)

\* C18 witness: thread 1 is in Stop of profiler 1, still registered, and
\* spins on profilers_lock_, which thread 2 holds in a walk that stands at
\* profiler 1: a ReportMalloc that repeats the one profiler 1 was delivered
\* before, one of any number.
C18_Witness ==
  /\ StopInProgress(1, 1)
  /\ At(1, "list_lock")
  /\ 1 \in registered
  /\ profilers_lock_ = 2
  /\ At(2, "walk")
  /\ cur[2] = 1
  /\ ev[2].kind = "malloc"
  /\ ev[2].id = NULL
  /\ seen[1] # << >>

\* SetStopTime has written the stop time of table tb: a table is constructed
\* with stop_time_ = 0 and every clock reading is later than that.
StopTimeRecorded(tb) == tables[tb].alive /\ tables[tb].stop_time_ # 0

\* This step gives table tb a lifetime observation: the table lives on and
\* its entries change.
Observes(tb) ==
  /\ tables[tb].alive
  /\ tables'[tb].alive
  /\ tables'[tb].table_ # tables[tb].table_

\* C21 as stated (no observation after the stop time): once Stop has written
\* the stop time of a profiler's table, no step adds a lifetime observation to
\* that table, so every observation of an emitted profile was added before
\* its stop time was recorded.
C21_AsStated ==
  [][\A tb \in Profilers : StopTimeRecorded(tb) => ~Observes(tb)]_vars

\* C21, what the code guarantees: a table is given an observation only by a
\* thread that holds profilers_lock_ and is inside ReportFree of a profiler in
\* the list that holds the table; the table of a profiler that Remove has
\* unlinked, the table of an emitted profile included, is given none.  Between
\* SetStopTime and Remove the profiler is still in the list.
C21_NoObservationAfterRemove ==
  /\ [][\A tb \in Profilers :
          Observes(tb) =>
            \E p \in registered : \E t \in Threads :
              /\ reports_[p] = tb
              /\ Visiting(t, p)
              /\ Acts(t)
              /\ profilers_lock_ = t
              /\ ev[t].kind = "free"]_vars
  /\ [](\A h \in Profilers :
          profile[h] # NULL => \A p \in registered : reports_[p] # profile[h])

\* C21 witness: thread 1, in Stop of profiler 1, has written the stop time of
\* the table, which holds no observation yet, and waits for profilers_lock_;
\* thread 2 holds the lock inside ReportFree of profiler 1 for a handle that
\* profiler 1 holds in flight, so the return of the visit gives the table its
\* first observation.
C21_Witness ==
  /\ StopInProgress(1, 1)
  /\ At(1, "list_lock")
  /\ reports_[1] # NULL
  /\ StopTimeRecorded(reports_[1])
  /\ tables[reports_[1]].table_ = {}
  /\ lifelog[reports_[1]] = EmptyBag
  /\ profilers_lock_ = 2
  /\ Visiting(2, 1)
  /\ ev[2].kind = "free"
  /\ ev[2].handle \in DOMAIN allocs_[1]

=============================================================================
